---- MODULE Spec2Model ----
(***************************************************************************)
(* The approval / audit workflow of the gogreen backend: the pending-change *)
(* routes (submit, review), PendingChangeModel, AuditLogModel and the       *)
(* pending_changes / audit_logs tables.  Every request handler is split at  *)
(* its awaits: one action per database round trip, so that the requests of  *)
(* different callers interleave as they do on the server.                   *)
(*                                                                         *)
(* Spec is the pending-change routes alone.  SystemSpec adds the user,      *)
(* change-password and product routes with the users and products tables,   *)
(* for fewer requests.  The list and audit queries are operators on the     *)
(* tables.                                                                  *)
(***************************************************************************)
EXTENDS Integers, Sequences, FiniteSets, TLC

\* Number of operations (submit requests, review requests, purges) issued in
\* one behaviour.
MaxRequests == 3

VARIABLES
    pendingChanges, \* table pending_changes: id -> row
    auditLogs,      \* table audit_logs: rows in insertion order
    requests,       \* the handler invocations: request slot -> handler state
    nextRequest,    \* number of requests issued so far
    nextId,         \* number of pending_changes rows inserted so far (fresh ids)
    now,            \* the clock read by new Date() / defaultNow(); it advances
                    \* whenever a pending_changes row has been inserted
    users,          \* table users: id -> row
    products,       \* table products: id -> row
    adminRequests,  \* the invocations of the user, auth and catalog handlers,
                    \* in order of arrival
    categories,     \* table categories: id -> row
    subcategories   \* table subcategories: id -> row

vars == <<pendingChanges, auditLogs, requests, nextRequest, nextId, now,
          users, products, adminRequests, categories, subcategories>>

\* The tables and handler states the pending-change routes never touch.
adminVars == <<users, products, adminRequests, categories, subcategories>>

\* The catalog tables above the products.
catalogVars == <<categories, subcategories>>

\* The tables and handler states the user, auth and product routes never touch.
workflowVars == <<pendingChanges, requests, nextRequest, nextId, now>>

-----------------------------------------------------------------------------
\* Values

\* SQL NULL / JavaScript undefined in a text, uuid or json column or field.
NULL == "NULL"

\* SQL NULL in a timestamp column (the clock starts after it).
NullTime == 0

ADMIN == "admin"
EDITOR == "editor"

\* JWTPayload of the callers; NoUser is a request without a valid token.
NoUser == [userId |-> NULL, role |-> NULL]
Users == { [userId |-> "admin1", role |-> ADMIN],
           [userId |-> "admin2", role |-> ADMIN],
           [userId |-> "editor1", role |-> EDITOR] }
Callers == Users \cup {NoUser}

\* Request bodies of POST /api/pending-changes.
SubmitBodies ==
    { [action |-> "update", resourceType |-> "product", resourceId |-> "p1",
       changeData |-> "price:12.00", previousData |-> "price:10.00"],
      [action |-> "create", resourceType |-> "category", resourceId |-> NULL,
       changeData |-> NULL, previousData |-> NULL],
      [action |-> "login", resourceType |-> "product", resourceId |-> "p1",
       changeData |-> "price:12.00", previousData |-> NULL] }

\* Request bodies of POST /api/pending-changes/:id/review.
ReviewBodies ==
    { [status |-> "approved", reviewNotes |-> "ok"],
      [status |-> "rejected", reviewNotes |-> "no"],
      [status |-> "rejected", reviewNotes |-> NULL],
      [status |-> "pending",  reviewNotes |-> NULL] }

\* ChangeId giving every inserted pending change the same id.
ChangeIdSame(n) == "pc" \o ToString(1)

\* The id the database gives the n-th inserted pending change (defaultRandom).
ChangeId(n) == "pc" \o ToString(n)

\* The ids handed out so far, and the :id path parameters tried by callers:
\* those and one that no row ever has.
IssuedIds == { ChangeId(n) : n \in 1..nextId }
KnownIds == IssuedIds \cup {ChangeId(0)}

Slots == 1..MaxRequests

\* argon2.hash and argon2.verify: a hash is verified by the password it was
\* made from and by no other.
argon2_hash(password) == "hash:" \o password

argon2_verify(hash, password) == hash = argon2_hash(password)

\* The users table after seed.ts and create-admin.ts: one row per identity
\* of Users, active, with its first password hash.
SeedUsers ==
    [ id \in { u.userId : u \in Users } |->
        [ id |-> id, email |-> id \o "@gogreen.com", password |-> argon2_hash("admin123"),
          role |-> (CHOOSE u \in Users : u.userId = id).role,
          isActive |-> TRUE ] ]

\* The categories table the behaviours start from.
SeedCategories ==
    [ id \in {"c1", "c2"} |->
        [ id |-> id, name |-> IF id = "c1" THEN "Plants" ELSE "Tools",
          slug |-> IF id = "c1" THEN "plants" ELSE "tools", isActive |-> TRUE ] ]

\* The subcategories table the behaviours start from: one subcategory in
\* each category.
SeedSubcategories ==
    [ id \in {"sc1", "sc2"} |->
        [ id |-> id, categoryId |-> IF id = "sc1" THEN "c1" ELSE "c2",
          name |-> IF id = "sc1" THEN "Indoor" ELSE "Spades",
          slug |-> IF id = "sc1" THEN "indoor" ELSE "spades", isActive |-> TRUE ] ]

\* The products table the behaviours start from: one product, p1.
SeedProducts ==
    [ id \in {"p1"} |->
        [ id |-> id, subcategoryId |-> "sc1", name |-> "Planter", slug |-> "planter",
          price |-> "10.00", isActive |-> TRUE ] ]

-----------------------------------------------------------------------------
\* Responses

Respond(status, error, data) == [status |-> status, error |-> error, data |-> data]

NoResponse == Respond(0, "", <<>>)

IdleRequest ==
    [ kind |-> "none", pc |-> "idle", user |-> NoUser, id |-> NULL,
      body |-> [status |-> NULL, reviewNotes |-> NULL],
      pendingChange |-> <<>>, reviewed |-> <<>>, res |-> NoResponse,
      afterSuccess |-> FALSE, absent |-> FALSE, auditFailed |-> FALSE,
      deleted |-> FALSE ]

-----------------------------------------------------------------------------
\* Middleware and validation
\*
\* middleware/auth.middleware.js is not among the sources.  The three guards
\* are modelled from their uses: authenticateToken resolves the caller to a
\* JWTPayload or answers 401, requireAdmin admits the role admin, and
\* requireEditor admits admins and editors ("Create a pending change (Admins
\* and Editors)"); a refusal is answered 403.

authenticateToken(user) == user # NoUser

requireAdmin(user) == user.role = ADMIN

requireEditor(user) == user.role \in {ADMIN, EDITOR}

createChangeSchema(body) == body.action \in {"create", "update", "delete"}

reviewSchema(body) == body.status \in {"approved", "rejected"}

\* IsSuperAdmin with the role check lost.
IsSuperAdminNever(user) == FALSE

\* if (req.user.role === UserRole.ADMIN)
IsSuperAdmin(user) == user.role = ADMIN

-----------------------------------------------------------------------------
\* PendingChangeModel

\* The row inserted by PendingChangeModel.create: the given values, status
\* 'pending', and the column defaults of the table for the rest.
NewPendingChange(id, data, t) ==
    [ id |-> id, userId |-> data.userId, action |-> data.action,
      resourceType |-> data.resourceType, resourceId |-> data.resourceId,
      changeData |-> data.changeData, previousData |-> data.previousData,
      status |-> "pending", reviewedBy |-> NULL, reviewedAt |-> NullTime,
      reviewNotes |-> NULL, createdAt |-> t, updatedAt |-> t ]

\* change_data is json NOT NULL and user_id references users.id: the insert
\* of a row without change data, or of a submitter that has no users row, is
\* refused.
InsertAccepted(data) == data.changeData # NULL /\ data.userId \in DOMAIN users

\* audit_logs.user_id references users.id: the insert of an audit row whose
\* actor has no users row is refused by the database.
ActorStored(user) == user.userId \in DOMAIN users

PendingChangeModel_getById(table, id) ==
    IF id \in DOMAIN table THEN <<table[id]>> ELSE <<>>

\* ReviewSet with reviewedAt left out of the SET clause.
ReviewSetNoTimestamp(row, reviewData, t) ==
    [ row EXCEPT !.status = reviewData.status,
                 !.reviewedBy = reviewData.reviewedBy,
                 !.reviewNotes = IF reviewData.reviewNotes = NULL
                                 THEN @ ELSE reviewData.reviewNotes,
                 !.updatedAt = t ]

\* ReviewSet storing the row's submitter as its reviewer.
ReviewSetSubmitterAsReviewer(row, reviewData, t) ==
    [ row EXCEPT !.status = reviewData.status,
                 !.reviewedBy = row.userId,
                 !.reviewedAt = t,
                 !.reviewNotes = IF reviewData.reviewNotes = NULL
                                 THEN @ ELSE reviewData.reviewNotes,
                 !.updatedAt = t ]

\* The SET clause of PendingChangeModel.review.  Drizzle leaves a column
\* whose value is undefined out of the SET clause.
ReviewSet(row, reviewData, t) ==
    [ row EXCEPT !.status = reviewData.status,
                 !.reviewedBy = reviewData.reviewedBy,
                 !.reviewedAt = t,
                 !.reviewNotes = IF reviewData.reviewNotes = NULL
                                 THEN @ ELSE reviewData.reviewNotes,
                 !.updatedAt = t ]

\* ReviewWhere without the condition on the id.
ReviewWhereAnyRow(row, id) == TRUE

\* The rows PendingChangeModel.review updates: WHERE id = $1.
ReviewWhere(row, id) == row.id = id

PendingChangeModel_review(table, id, reviewData, t) ==
    [ i \in DOMAIN table |->
        IF ReviewWhere(table[i], id) THEN ReviewSet(table[i], reviewData, t)
        ELSE table[i] ]

\* DeleteWhere sparing the rows that have been reviewed.
DeleteWherePendingOnly(row, id) == row.id = id /\ row.status = "pending"

\* The rows PendingChangeModel.delete removes: WHERE id = $1.
DeleteWhere(row, id) == row.id = id

\* .returning(): the rows the DELETE removed.
PendingChangeModel_deleteReturning(table, id) ==
    IF \E i \in DOMAIN table : DeleteWhere(table[i], id)
    THEN <<table[CHOOSE i \in DOMAIN table : DeleteWhere(table[i], id)]>>
    ELSE <<>>

\* The table after db.delete(pendingChanges).where(eq(pendingChanges.id, id)).
PendingChangeModel_delete(table, id) ==
    [ i \in {j \in DOMAIN table : ~DeleteWhere(table[j], id)} |-> table[i] ]

-----------------------------------------------------------------------------
\* AuditLogModel

\* AuditLogModel_create writing over the rows stored before.
AuditLogModel_createOverwriting(log, row) == <<row>>

\* AuditLogModel.create: db.insert(auditLogs).values(...), one more row.
AuditLogModel_create(log, row) == Append(log, row)

NewAuditLog(data, t, slot) ==
    [ userId |-> data.userId, action |-> data.action,
      resourceType |-> data.resourceType, resourceId |-> data.resourceId,
      details |-> data.details, ipAddress |-> NULL, userAgent |-> NULL,
      createdAt |-> t, request |-> slot ]

\* SubmitAuditData naming the target resource instead of the pending change.
SubmitAuditDataTargetId(user, data, pendingChange) ==
    [ userId |-> user.userId, action |-> "create",
      resourceType |-> "pending_change", resourceId |-> data.resourceId,
      details |-> [changeType |-> data.action, targetResource |-> data.resourceType] ]

SubmitAuditData(user, data, pendingChange) ==
    [ userId |-> user.userId, action |-> "create",
      resourceType |-> "pending_change", resourceId |-> pendingChange.id,
      details |-> [changeType |-> data.action, targetResource |-> data.resourceType] ]

\* ReviewAuditAction logging every decision as an approval.
ReviewAuditActionAlwaysApprove(status) == "approve"

ReviewAuditAction(status) == IF status = "approved" THEN "approve" ELSE "reject"

ReviewAuditData(user, id, data, pendingChange) ==
    [ userId |-> user.userId, action |-> ReviewAuditAction(data.status),
      resourceType |-> "pending_change", resourceId |-> id,
      details |-> [originalAction |-> pendingChange.action,
                   targetResource |-> pendingChange.resourceType,
                   reviewNotes |-> data.reviewNotes] ]

-----------------------------------------------------------------------------
Init ==
    /\ pendingChanges = [i \in {} |-> {}]
    /\ auditLogs = <<>>
    /\ requests = [r \in Slots |-> IdleRequest]
    /\ nextRequest = 0
    /\ nextId = 0
    /\ now = 1
    /\ users = SeedUsers
    /\ products = SeedProducts
    /\ adminRequests = <<>>
    /\ categories = SeedCategories
    /\ subcategories = SeedSubcategories

\* A review of the change `id` that has already been answered with success.
ReviewSucceeded(id) ==
    \E q \in Slots : /\ requests[q].kind = "review"
                     /\ requests[q].id = id
                     /\ requests[q].pc = "done"
                     /\ requests[q].res.status = 200

Finish(r, res) ==
    requests' = [requests EXCEPT ![r].pc = "done", ![r].res = res]

-----------------------------------------------------------------------------
\* POST /api/pending-changes

\* The request arrives: the middleware chain, the handler's checks and its
\* first database round trip, await PendingChangeModel.create(...).
SubmitCreate(user, body) ==
    /\ nextRequest < MaxRequests
    /\ nextRequest' = nextRequest + 1
    /\ LET r == nextRequest + 1
           refused == [IdleRequest EXCEPT !.kind = "submit", !.user = user,
                                          !.pc = "done"]
           data == [userId |-> user.userId, action |-> body.action,
                    resourceType |-> body.resourceType,
                    resourceId |-> body.resourceId,
                    changeData |-> body.changeData,
                    previousData |-> body.previousData]
           id == ChangeId(nextId + 1)
           row == NewPendingChange(id, data, now)
       IN IF ~authenticateToken(user)
            THEN /\ requests' = [requests EXCEPT ![r] =
                       [refused EXCEPT !.res = Respond(401, "Not authenticated", <<>>)]]
                 /\ UNCHANGED <<pendingChanges, nextId, now>>
          ELSE IF ~requireEditor(user)
            THEN /\ requests' = [requests EXCEPT ![r] =
                       [refused EXCEPT !.res = Respond(403, "Insufficient permissions", <<>>)]]
                 /\ UNCHANGED <<pendingChanges, nextId, now>>
          ELSE IF IsSuperAdmin(user)
            THEN /\ requests' = [requests EXCEPT ![r] =
                       [refused EXCEPT !.res =
                          Respond(400, "Super admins do not need approval for changes", <<>>)]]
                 /\ UNCHANGED <<pendingChanges, nextId, now>>
          ELSE IF ~createChangeSchema(body)
            THEN /\ requests' = [requests EXCEPT ![r] =
                       [refused EXCEPT !.res = Respond(400, "Invalid input", <<>>)]]
                 /\ UNCHANGED <<pendingChanges, nextId, now>>
          ELSE IF ~InsertAccepted(data)
            THEN /\ requests' = [requests EXCEPT ![r] =
                       [refused EXCEPT !.res = Respond(500, "Internal server error", <<>>)]]
                 /\ UNCHANGED <<pendingChanges, nextId, now>>
          ELSE /\ pendingChanges' = (id :> row) @@ pendingChanges
               /\ nextId' = nextId + 1
               /\ now' = now + 1
               /\ requests' = [requests EXCEPT ![r] =
                     [IdleRequest EXCEPT !.kind = "submit", !.user = user,
                        !.body = body, !.pc = "audit", !.pendingChange = <<row>>]]
    /\ UNCHANGED <<auditLogs, adminVars>>

\* await AuditLogModel.create(...), then res.json(...); a rejected insert
\* lands in the handler's catch block.
SubmitAudit(r, stored) ==
    /\ requests[r].kind = "submit"
    /\ requests[r].pc = "audit"
    /\ stored => ActorStored(requests[r].user)
    /\ LET req == requests[r]
           data == SubmitAuditData(req.user, req.body, req.pendingChange[1])
       IN IF stored
          THEN /\ auditLogs' = AuditLogModel_create(auditLogs, NewAuditLog(data, now, r))
               /\ Finish(r, Respond(200, "", req.pendingChange))
          ELSE /\ requests' = [requests EXCEPT ![r].pc = "done",
                      ![r].auditFailed = TRUE,
                      ![r].res = Respond(500, "Internal server error", <<>>)]
               /\ UNCHANGED auditLogs
    /\ UNCHANGED <<pendingChanges, nextRequest, nextId, now, adminVars>>

-----------------------------------------------------------------------------
\* POST /api/pending-changes/:id/review

\* AlreadyReviewed with the status check lost.
AlreadyReviewedNever(pendingChange) == FALSE

\* if (pendingChange.status !== 'pending')
AlreadyReviewed(pendingChange) == pendingChange.status # "pending"

\* The request arrives: the middleware chain, the handler's checks, its first
\* database round trip, await PendingChangeModel.getById(id), and the two
\* checks on the row read.
ReviewGetById(user, id, body) ==
    /\ nextRequest < MaxRequests
    /\ nextRequest' = nextRequest + 1
    /\ LET r == nextRequest + 1
           refused == [IdleRequest EXCEPT !.kind = "review", !.user = user,
                                          !.pc = "done"]
           answered == [IdleRequest EXCEPT !.kind = "review", !.user = user,
                          !.id = id, !.pc = "done",
                          !.afterSuccess = ReviewSucceeded(id)]
           started == [answered EXCEPT !.body = body, !.pc = "review"]
           found == PendingChangeModel_getById(pendingChanges, id)
       IN requests' = [requests EXCEPT ![r] =
            IF ~authenticateToken(user)
              THEN [refused EXCEPT !.res = Respond(401, "Not authenticated", <<>>)]
            ELSE IF ~requireAdmin(user)
              THEN [refused EXCEPT !.res = Respond(403, "Insufficient permissions", <<>>)]
            ELSE IF ~reviewSchema(body)
              THEN [refused EXCEPT !.res = Respond(400, "Invalid input", <<>>)]
            ELSE IF found = <<>>
              THEN [answered EXCEPT !.absent = TRUE,
                      !.res = Respond(404, "Pending change not found", <<>>)]
            ELSE IF AlreadyReviewed(found[1])
              THEN [answered EXCEPT
                      !.res = Respond(400, "This change has already been reviewed", <<>>)]
            ELSE [started EXCEPT !.pendingChange = found]]
    /\ UNCHANGED <<pendingChanges, auditLogs, nextId, now, adminVars>>

\* await PendingChangeModel.review(id, {...})
ReviewUpdate(r) ==
    /\ requests[r].kind = "review"
    /\ requests[r].pc = "review"
    /\ LET req == requests[r]
           reviewData == [reviewedBy |-> req.user.userId,
                          status |-> req.body.status,
                          reviewNotes |-> req.body.reviewNotes]
           table == PendingChangeModel_review(pendingChanges, req.id, reviewData, now)
       IN /\ pendingChanges' = table
          /\ requests' = [requests EXCEPT ![r].pc = "audit",
                ![r].reviewed = PendingChangeModel_getById(table, req.id),
                ![r].absent = (PendingChangeModel_getById(table, req.id) = <<>>)]
    /\ UNCHANGED <<auditLogs, nextRequest, nextId, now, adminVars>>

\* await AuditLogModel.create(...), then res.json(...).
ReviewAudit(r, stored) ==
    /\ requests[r].kind = "review"
    /\ requests[r].pc = "audit"
    /\ stored => ActorStored(requests[r].user)
    /\ LET req == requests[r]
           data == ReviewAuditData(req.user, req.id, req.body, req.pendingChange[1])
       IN IF stored
          THEN /\ auditLogs' = AuditLogModel_create(auditLogs, NewAuditLog(data, now, r))
               /\ Finish(r, Respond(200, "", req.reviewed))
          ELSE /\ requests' = [requests EXCEPT ![r].pc = "done",
                      ![r].auditFailed = TRUE,
                      ![r].res = Respond(500, "Internal server error", <<>>)]
               /\ UNCHANGED auditLogs
    /\ UNCHANGED <<pendingChanges, nextRequest, nextId, now, adminVars>>

-----------------------------------------------------------------------------
\* PendingChangeModel.delete(id): the administrative purge.  The record keeps
\* the rows the statement returned and the boolean the method answers,
\* result.length > 0.
Delete(id) ==
    /\ nextRequest < MaxRequests
    /\ nextRequest' = nextRequest + 1
    /\ pendingChanges' = PendingChangeModel_delete(pendingChanges, id)
    /\ LET result == PendingChangeModel_deleteReturning(pendingChanges, id)
       IN requests' = [requests EXCEPT ![nextRequest + 1] =
            [IdleRequest EXCEPT !.kind = "delete", !.pc = "done", !.id = id,
                                !.pendingChange = result,
                                !.deleted = (Len(result) > 0)]]
    /\ UNCHANGED <<auditLogs, nextId, now, adminVars>>

-----------------------------------------------------------------------------
Next ==
    \/ \E user \in Callers, body \in SubmitBodies : SubmitCreate(user, body)
    \/ \E r \in Slots, stored \in BOOLEAN : SubmitAudit(r, stored)
    \/ \E user \in Callers, id \in KnownIds, body \in ReviewBodies :
          ReviewGetById(user, id, body)
    \/ \E r \in Slots : ReviewUpdate(r)
    \/ \E r \in Slots, stored \in BOOLEAN : ReviewAudit(r, stored)
    \/ \E id \in IssuedIds : Delete(id)

Spec == Init /\ [][Next]_vars

-----------------------------------------------------------------------------
\* The user, auth and product routes
\*
\* Number of requests (of any route) issued in one behaviour of SystemSpec.
MaxSystemRequests == 2

\* The callers of the user, auth and product routes: the second admin acts
\* as the first does.
AdminCallers == { u \in Callers : u.userId # "admin2" }

\* The :id path parameters of the users routes: the seeded ids and one that
\* no row has.
UserIds == DOMAIN SeedUsers \cup {"u0"}

\* Request bodies of PATCH /api/users/:id/role.
RoleBodies == { [role |-> EDITOR], [role |-> ADMIN] }

\* Request bodies of PATCH /api/users/:id/active.
ActiveBodies == { [isActive |-> TRUE], [isActive |-> FALSE] }

IdleAdminRequest ==
    [ kind |-> "none", pc |-> "idle", user |-> NoUser, id |-> NULL,
      body |-> NULL, found |-> <<>>, applied |-> FALSE, res |-> NoResponse,
      auditFailed |-> FALSE ]

\* The ghost field `request` of the audit rows written by the r-th request of
\* these routes; the slots of the pending-change routes are positive.
AdminTag(r) == 0 - r

AdminSlots == DOMAIN adminRequests

\* A request of these routes arrives and runs up to its first await, or to
\* its response.
Arrive(req) ==
    /\ nextRequest + Len(adminRequests) < MaxSystemRequests
    /\ adminRequests' = Append(adminRequests, req)

AdminFinish(r, res) ==
    adminRequests' = [adminRequests EXCEPT ![r].pc = "done", ![r].res = res]

\* The handler's catch block after a rejected audit insert.
AdminAuditFailed(r) ==
    adminRequests' = [adminRequests EXCEPT ![r].pc = "done",
        ![r].auditFailed = TRUE,
        ![r].res = Respond(500, "Internal server error", <<>>)]

-----------------------------------------------------------------------------
\* UserModel

UserModel_findById(table, id) ==
    IF id \in DOMAIN table THEN <<table[id]>> ELSE <<>>

UserModel_updateRole(table, userId, role) ==
    [ i \in DOMAIN table |->
        IF i = userId THEN [table[i] EXCEPT !.role = role] ELSE table[i] ]

UserModel_toggleActive(table, userId, isActive) ==
    [ i \in DOMAIN table |->
        IF i = userId THEN [table[i] EXCEPT !.isActive = isActive] ELSE table[i] ]

UserModel_updatePassword(table, userId, hashedPassword) ==
    [ i \in DOMAIN table |->
        IF i = userId THEN [table[i] EXCEPT !.password = hashedPassword]
        ELSE table[i] ]

UserModel_deleteById(table, id) == [ i \in DOMAIN table \ {id} |-> table[i] ]

\* The foreign keys to users.id not enforced.
UserReferencedNever(id) == FALSE

\* audit_logs.user_id, pending_changes.user_id and pending_changes.reviewed_by
\* reference users.id without an ON DELETE clause: the delete of a users row
\* that one of them names is refused by the database.
UserReferenced(id) ==
    \/ \E i \in 1..Len(auditLogs) : auditLogs[i].userId = id
    \/ \E c \in DOMAIN pendingChanges :
          pendingChanges[c].userId = id \/ pendingChanges[c].reviewedBy = id

\* updateRoleSchema accepting every role.
updateRoleSchemaAnyRole(body) == TRUE

\* const updateRoleSchema = z.object({ role: z.enum(['editor']) })
updateRoleSchema(body) == body.role \in {EDITOR}

\* const toggleActiveSchema = z.object({ isActive: z.boolean() })
toggleActiveSchema(body) == body.isActive \in BOOLEAN

\* IsAdminRow with the role check lost.
IsAdminRowNever(user) == FALSE

\* if (user.role === UserRole.ADMIN)
IsAdminRow(user) == user.role = ADMIN

\* The middleware chain and the checks the three handlers of /api/users/:id
\* share, up to and including the row read by UserModel.findById: the refusal
\* they answer with, or NoResponse when the handler goes on.
UserRefusal(user, id, validBody, adminText, selfText) ==
    LET found == UserModel_findById(users, id)
    IN IF ~authenticateToken(user) THEN Respond(401, "Not authenticated", <<>>)
       ELSE IF ~requireAdmin(user) THEN Respond(403, "Insufficient permissions", <<>>)
       ELSE IF ~validBody THEN Respond(400, "Invalid input", <<>>)
       ELSE IF found = <<>> THEN Respond(404, "User not found", <<>>)
       ELSE IF IsAdminRow(found[1]) THEN Respond(403, adminText, <<>>)
       ELSE IF selfText # NULL /\ id = user.userId THEN Respond(403, selfText, <<>>)
       ELSE NoResponse

\* The record of a request of /api/users/:id after its first round trip.
UserRequest(kind, user, id, body, res) ==
    IF res # NoResponse
    THEN [IdleAdminRequest EXCEPT !.kind = kind, !.user = user, !.id = id,
                                  !.pc = "done", !.res = res]
    ELSE [IdleAdminRequest EXCEPT !.kind = kind, !.user = user, !.id = id,
                                  !.body = body, !.pc = "write",
                                  !.found = UserModel_findById(users, id)]

UserAuditData(user, action, id, details) ==
    [ userId |-> user.userId, action |-> action, resourceType |-> "user",
      resourceId |-> id, details |-> details ]

-----------------------------------------------------------------------------
\* PATCH /api/users/:id/role

UserRoleFindById(user, id, body) ==
    /\ Arrive(UserRequest("role", user, id, body,
          UserRefusal(user, id, updateRoleSchema(body),
                      "Cannot change admin role", NULL)))
    /\ UNCHANGED <<workflowVars, catalogVars, auditLogs, users, products>>

\* await UserModel.updateRole(id, data.role)
UserRoleUpdate(r) ==
    /\ adminRequests[r].kind = "role"
    /\ adminRequests[r].pc = "write"
    /\ users' = UserModel_updateRole(users, adminRequests[r].id, adminRequests[r].body.role)
    /\ adminRequests' = [adminRequests EXCEPT ![r].pc = "audit",
          ![r].applied = (adminRequests[r].id \in DOMAIN users)]
    /\ UNCHANGED <<workflowVars, catalogVars, auditLogs, products>>

\* await AuditLogModel.create(...), then res.json(...).
UserRoleAudit(r, stored) ==
    /\ adminRequests[r].kind = "role"
    /\ adminRequests[r].pc = "audit"
    /\ stored => ActorStored(adminRequests[r].user)
    /\ LET req == adminRequests[r]
           data == UserAuditData(req.user, "update", req.id,
                     [oldRole |-> req.found[1].role, newRole |-> req.body.role])
       IN IF stored
          THEN /\ auditLogs' = AuditLogModel_create(auditLogs,
                                  NewAuditLog(data, now, AdminTag(r)))
               /\ AdminFinish(r, Respond(200, "User role updated successfully", <<>>))
          ELSE /\ AdminAuditFailed(r)
               /\ UNCHANGED auditLogs
    /\ UNCHANGED <<workflowVars, catalogVars, users, products>>

-----------------------------------------------------------------------------
\* PATCH /api/users/:id/active

UserActiveFindById(user, id, body) ==
    /\ Arrive(UserRequest("active", user, id, body,
          UserRefusal(user, id, toggleActiveSchema(body),
                      "Cannot deactivate admin", "Cannot deactivate your own account")))
    /\ UNCHANGED <<workflowVars, catalogVars, auditLogs, users, products>>

\* await UserModel.toggleActive(id, data.isActive)
UserActiveToggle(r) ==
    /\ adminRequests[r].kind = "active"
    /\ adminRequests[r].pc = "write"
    /\ users' = UserModel_toggleActive(users, adminRequests[r].id,
                                       adminRequests[r].body.isActive)
    /\ adminRequests' = [adminRequests EXCEPT ![r].pc = "audit",
          ![r].applied = (adminRequests[r].id \in DOMAIN users)]
    /\ UNCHANGED <<workflowVars, catalogVars, auditLogs, products>>

\* await AuditLogModel.create(...), then res.json(...).
UserActiveAudit(r, stored) ==
    /\ adminRequests[r].kind = "active"
    /\ adminRequests[r].pc = "audit"
    /\ stored => ActorStored(adminRequests[r].user)
    /\ LET req == adminRequests[r]
           data == UserAuditData(req.user, "update", req.id,
                     [action |-> IF req.body.isActive THEN "activated"
                                 ELSE "deactivated"])
       IN IF stored
          THEN /\ auditLogs' = AuditLogModel_create(auditLogs,
                                  NewAuditLog(data, now, AdminTag(r)))
               /\ AdminFinish(r, Respond(200,
                     IF req.body.isActive THEN "User activated successfully"
                     ELSE "User deactivated successfully", <<>>))
          ELSE /\ AdminAuditFailed(r)
               /\ UNCHANGED auditLogs
    /\ UNCHANGED <<workflowVars, catalogVars, users, products>>

-----------------------------------------------------------------------------
\* DELETE /api/users/:id

UserDeleteFindById(user, id) ==
    /\ Arrive(UserRequest("deleteUser", user, id, NULL,
          UserRefusal(user, id, TRUE,
                      "Cannot delete admin", "Cannot delete your own account")))
    /\ UNCHANGED <<workflowVars, catalogVars, auditLogs, users, products>>

\* await UserModel.deleteById(id); a delete the database refuses lands in the
\* handler's catch block.
UserDeleteById(r) ==
    /\ adminRequests[r].kind = "deleteUser"
    /\ adminRequests[r].pc = "write"
    /\ LET id == adminRequests[r].id
       IN IF id \in DOMAIN users /\ UserReferenced(id)
          THEN /\ AdminFinish(r, Respond(500, "Internal server error", <<>>))
               /\ UNCHANGED users
          ELSE /\ users' = UserModel_deleteById(users, id)
               /\ adminRequests' = [adminRequests EXCEPT ![r].pc = "audit",
                     ![r].applied = (id \in DOMAIN users)]
    /\ UNCHANGED <<workflowVars, catalogVars, auditLogs, products>>

\* await AuditLogModel.create(...), then res.json(...).
UserDeleteAudit(r, stored) ==
    /\ adminRequests[r].kind = "deleteUser"
    /\ adminRequests[r].pc = "audit"
    /\ stored => ActorStored(adminRequests[r].user)
    /\ LET req == adminRequests[r]
           data == UserAuditData(req.user, "delete", req.id,
                     [email |-> req.found[1].email, role |-> req.found[1].role])
       IN IF stored
          THEN /\ auditLogs' = AuditLogModel_create(auditLogs,
                                  NewAuditLog(data, now, AdminTag(r)))
               /\ AdminFinish(r, Respond(200, "User deleted successfully", <<>>))
          ELSE /\ AdminAuditFailed(r)
               /\ UNCHANGED auditLogs
    /\ UNCHANGED <<workflowVars, catalogVars, users, products>>

-----------------------------------------------------------------------------
\* POST /api/auth/change-password

\* Request bodies of POST /api/auth/change-password.
ChangePasswordBodies ==
    { [currentPassword |-> "admin123", newPassword |-> "secret"],
      [currentPassword |-> "guess", newPassword |-> "secret"],
      [currentPassword |-> "admin123", newPassword |-> "short"] }

\* newPassword: z.string().min(6)
changePasswordSchema(body) == Len(body.newPassword) >= 6

\* The request arrives: authenticateToken, the body validation, await
\* UserModel.findById(req.user.userId), argon2.verify and argon2.hash.
ChangePasswordFindById(user, body) ==
    /\ LET found == UserModel_findById(users, user.userId)
           refused == [IdleAdminRequest EXCEPT !.kind = "password", !.user = user,
                                               !.pc = "done"]
       IN Arrive(
            IF ~authenticateToken(user)
              THEN [refused EXCEPT !.res = Respond(401, "Not authenticated", <<>>)]
            ELSE IF ~changePasswordSchema(body)
              THEN [refused EXCEPT !.res = Respond(400, "Invalid input", <<>>)]
            ELSE IF found = <<>>
              THEN [refused EXCEPT !.res = Respond(404, "User not found", <<>>)]
            ELSE IF ~argon2_verify(found[1].password, body.currentPassword)
              THEN [refused EXCEPT
                      !.res = Respond(401, "Current password is incorrect", <<>>)]
            ELSE [IdleAdminRequest EXCEPT !.kind = "password", !.user = user,
                    !.id = user.userId, !.body = body, !.pc = "write",
                    !.found = found])
    /\ UNCHANGED <<workflowVars, catalogVars, auditLogs, users, products>>

\* await UserModel.updatePassword(user.id, hashedPassword), then res.json(...).
ChangePasswordUpdate(r) ==
    /\ adminRequests[r].kind = "password"
    /\ adminRequests[r].pc = "write"
    /\ users' = UserModel_updatePassword(users, adminRequests[r].id,
                    argon2_hash(adminRequests[r].body.newPassword))
    /\ adminRequests' = [adminRequests EXCEPT ![r].pc = "done",
          ![r].applied = (adminRequests[r].id \in DOMAIN users),
          ![r].res = Respond(200, "Password changed successfully", <<>>)]
    /\ UNCHANGED <<workflowVars, catalogVars, auditLogs, products>>

-----------------------------------------------------------------------------
\* The constraints of the catalog tables

\* UniqueSlug with the constraint dropped.
UniqueSlugUnchecked(table, id, slug) == TRUE

\* CONSTRAINT ..._slug_unique UNIQUE("slug"): the row `id` may hold `slug`
\* when no other row of the table holds it.
UniqueSlug(table, id, slug) ==
    \A i \in DOMAIN table : table[i].slug = slug => i = id

\* Deleted answering true whether or not a row was removed.
DeletedAlways(table, id) == TRUE

\* const result = await db.delete(...).where(eq(....id, id)).returning();
\* return result.length > 0
Deleted(table, id) == id \in DOMAIN table

\* FOREIGN KEY (...) REFERENCES parent("id"): the referenced row exists.
References(parent, id) == id \in DOMAIN parent

\* OnDeleteCascade leaving the referencing rows in place.
OnDeleteNoAction(table, column, parent) == table

\* ON DELETE cascade: the rows of `table` whose `column` names a row that
\* `parent` no longer has are deleted with it.
OnDeleteCascade(table, column, parent) ==
    [ i \in {j \in DOMAIN table : table[j][column] \in DOMAIN parent} |-> table[i] ]

\* .set({ ...data, updatedAt: new Date() }) after cleanData: the columns the
\* body names take its values, the others keep theirs.
Set(row, data) ==
    [ f \in DOMAIN row |->
        IF f \in DOMAIN data /\ data[f] # NULL THEN data[f] ELSE row[f] ]

-----------------------------------------------------------------------------
\* POST /api/users

\* users.email is unique: at most one row has it.
UserModel_findByEmail(table, email) ==
    IF \E i \in DOMAIN table : table[i].email = email
    THEN <<table[CHOOSE i \in DOMAIN table : table[i].email = email]>>
    ELSE <<>>

\* The row inserted by UserModel.create.
NewUser(id, userData) ==
    [ id |-> id, email |-> userData.email, password |-> userData.password,
      role |-> userData.role, isActive |-> TRUE ]

\* The id the database gives the user inserted by the r-th request.
UserId(r) == "u" \o ToString(r)

\* Request bodies of POST /api/users.
CreateUserBodies ==
    { [email |-> "new@gogreen.com", password |-> "secret", role |-> EDITOR],
      [email |-> "editor1@gogreen.com", password |-> "secret", role |-> EDITOR],
      [email |-> "new@gogreen.com", password |-> "secret", role |-> ADMIN] }

\* createUserSchema accepting every role.
createUserSchemaAnyRole(body) == Len(body.password) >= 6

\* password: z.string().min(6), role: z.enum(['editor'])
createUserSchema(body) == Len(body.password) >= 6 /\ body.role \in {EDITOR}

\* The request arrives: the middleware chain, the body validation and await
\* UserModel.findByEmail(data.email).
UserCreateFindByEmail(user, body) ==
    /\ LET refused == [IdleAdminRequest EXCEPT !.kind = "createUser",
                                               !.user = user, !.pc = "done"]
       IN Arrive(
            IF ~authenticateToken(user)
              THEN [refused EXCEPT !.res = Respond(401, "Not authenticated", <<>>)]
            ELSE IF ~requireAdmin(user)
              THEN [refused EXCEPT !.res = Respond(403, "Insufficient permissions", <<>>)]
            ELSE IF ~createUserSchema(body)
              THEN [refused EXCEPT !.res = Respond(400, "Invalid input", <<>>)]
            ELSE IF UserModel_findByEmail(users, body.email) # <<>>
              THEN [refused EXCEPT !.res =
                      Respond(400, "User with this email already exists", <<>>)]
            ELSE [IdleAdminRequest EXCEPT !.kind = "createUser", !.user = user,
                    !.body = body, !.pc = "write"])
    /\ UNCHANGED <<workflowVars, catalogVars, auditLogs, users, products>>

\* await argon2.hash(data.password); await UserModel.create(...).  An insert
\* the unique constraint on email refuses lands in the handler's catch block.
UserCreate(r) ==
    /\ adminRequests[r].kind = "createUser"
    /\ adminRequests[r].pc = "write"
    /\ LET data == adminRequests[r].body
           newUser == NewUser(UserId(r),
                         [email |-> data.email, password |-> argon2_hash(data.password),
                          role |-> data.role])
       IN IF UserModel_findByEmail(users, data.email) # <<>>
          THEN /\ AdminFinish(r, Respond(500, "Internal server error", <<>>))
               /\ UNCHANGED users
          ELSE /\ users' = (newUser.id :> newUser) @@ users
               /\ adminRequests' = [adminRequests EXCEPT ![r].pc = "audit",
                     ![r].id = newUser.id, ![r].found = <<newUser>>,
                     ![r].applied = TRUE]
    /\ UNCHANGED <<workflowVars, catalogVars, auditLogs, products>>

\* await AuditLogModel.create(...), then res.json(...).
UserCreateAudit(r, stored) ==
    /\ adminRequests[r].kind = "createUser"
    /\ adminRequests[r].pc = "audit"
    /\ stored => ActorStored(adminRequests[r].user)
    /\ LET req == adminRequests[r]
           newUser == req.found[1]
           data == UserAuditData(req.user, "create", newUser.id,
                     [email |-> newUser.email, role |-> newUser.role])
       IN IF stored
          THEN /\ auditLogs' = AuditLogModel_create(auditLogs,
                                  NewAuditLog(data, now, AdminTag(r)))
               /\ AdminFinish(r, Respond(200, "User created successfully", req.found))
          ELSE /\ AdminAuditFailed(r)
               /\ UNCHANGED auditLogs
    /\ UNCHANGED <<workflowVars, catalogVars, users, products>>

-----------------------------------------------------------------------------
\* POST /api/auth/login

\* Request bodies of POST /api/auth/login: the editor's password at the start,
\* a password the editor can change to, a password too short, and an email
\* that no user has.
LoginBodies ==
    { [email |-> "editor1@gogreen.com", password |-> "admin123"],
      [email |-> "editor1@gogreen.com", password |-> "secret"],
      [email |-> "editor1@gogreen.com", password |-> "short"],
      [email |-> "nobody@gogreen.com", password |-> "admin123"] }

\* password: z.string().min(6)
loginSchema(body) == Len(body.password) >= 6

\* The whole handler: the body validation, await UserModel.findByEmail(email),
\* await argon2.verify(user.password, password), and the response with the
\* signed token; nothing is written.  The record keeps the row read.
Login(body) ==
    /\ LET user == UserModel_findByEmail(users, body.email)
           answered == [IdleAdminRequest EXCEPT !.kind = "login", !.body = body,
                                                !.pc = "done", !.found = user]
       IN Arrive(
            IF ~loginSchema(body)
              THEN [answered EXCEPT !.found = <<>>,
                      !.res = Respond(400, "Invalid input", <<>>)]
            ELSE IF user = <<>>
              THEN [answered EXCEPT !.res = Respond(401, "Invalid credentials", <<>>)]
            ELSE IF ~argon2_verify(user[1].password, body.password)
              THEN [answered EXCEPT !.res = Respond(401, "Invalid credentials", <<>>)]
            ELSE [answered EXCEPT !.id = user[1].id,
                    !.res = Respond(200, "Login successful", user)])
    /\ UNCHANGED <<workflowVars, catalogVars, auditLogs, users, products>>

-----------------------------------------------------------------------------
\* ProductModel

ProductModel_getById(table, id) ==
    IF id \in DOMAIN table THEN <<table[id]>> ELSE <<>>

\* slug is unique: at most one row has it.
ProductModel_getBySlug(table, slug) ==
    IF \E i \in DOMAIN table : table[i].slug = slug
    THEN <<table[CHOOSE i \in DOMAIN table : table[i].slug = slug]>>
    ELSE <<>>

\* The row inserted by ProductModel.create: the given values and the column
\* defaults of the table.
NewProduct(id, data) ==
    [ id |-> id, subcategoryId |-> data.subcategoryId, name |-> data.name,
      slug |-> data.slug, price |-> data.price, isActive |-> TRUE ]

ProductModel_delete(table, id) == [ i \in DOMAIN table \ {id} |-> table[i] ]

\* The id the database gives the product inserted by the r-th request.
ProductId(r) == "p" \o ToString(r + 1)

\* Request bodies of POST /api/products.
ProductBodies ==
    { [subcategoryId |-> "sc1", name |-> "Fern", slug |-> "fern", price |-> "5.00"],
      [subcategoryId |-> "sc1", name |-> "Pot", slug |-> "planter", price |-> "7.00"],
      [subcategoryId |-> "sc1", name |-> "Fern", slug |-> "", price |-> "5.00"] }

\* subcategoryId, name and slug: z.string().min(1)
createProductSchema(body) ==
    body.subcategoryId # "" /\ body.name # "" /\ body.slug # ""

\* The :id path parameters of the product routes: the stored ids and one
\* that no row has.
ProductIds == DOMAIN products \cup {"p0"}

\* ProductsGuard with requireEditor in the place of requireAdmin.
ProductsGuardEditor(user) == requireEditor(user)

\* The role guard in the middleware chain of the mutating product routes:
\* router.post('/', authenticateToken, requireAdmin, ...).
ProductsGuard(user) == requireAdmin(user)

ProductAuditData(user, action, id, details) ==
    [ userId |-> user.userId, action |-> action, resourceType |-> "product",
      resourceId |-> id, details |-> details ]

-----------------------------------------------------------------------------
\* POST /api/products

\* The request arrives: the middleware chain, the body validation and await
\* ProductModel.getBySlug(data.slug).
ProductCreateGetBySlug(user, body) ==
    /\ LET refused == [IdleAdminRequest EXCEPT !.kind = "createProduct",
                                               !.user = user, !.pc = "done"]
       IN Arrive(
            IF ~authenticateToken(user)
              THEN [refused EXCEPT !.res = Respond(401, "Not authenticated", <<>>)]
            ELSE IF ~ProductsGuard(user)
              THEN [refused EXCEPT !.res = Respond(403, "Insufficient permissions", <<>>)]
            ELSE IF ~createProductSchema(body)
              THEN [refused EXCEPT !.body = body,
                      !.res = Respond(400, "Invalid input", <<>>)]
            ELSE IF ProductModel_getBySlug(products, body.slug) # <<>>
              THEN [refused EXCEPT !.body = body, !.res =
                      Respond(400, "Product with this slug already exists", <<>>)]
            ELSE [IdleAdminRequest EXCEPT !.kind = "createProduct", !.user = user,
                    !.body = body, !.pc = "write"])
    /\ UNCHANGED <<workflowVars, catalogVars, auditLogs, users, products>>

\* await ProductModel.create(...); an insert that the unique constraint on
\* slug or the foreign key on subcategory_id refuses lands in the handler's
\* catch block.
ProductCreate(r) ==
    /\ adminRequests[r].kind = "createProduct"
    /\ adminRequests[r].pc = "write"
    /\ LET row == NewProduct(ProductId(r), adminRequests[r].body)
       IN IF \/ ~UniqueSlug(products, row.id, row.slug)
             \/ ~References(subcategories, row.subcategoryId)
          THEN /\ AdminFinish(r, Respond(500, "Internal server error", <<>>))
               /\ UNCHANGED products
          ELSE /\ products' = (row.id :> row) @@ products
               /\ adminRequests' = [adminRequests EXCEPT ![r].pc = "audit",
                     ![r].id = row.id, ![r].found = <<row>>, ![r].applied = TRUE]
    /\ UNCHANGED <<workflowVars, catalogVars, auditLogs, users>>

\* await AuditLogModel.create(...), then res.json(...).
ProductCreateAudit(r, stored) ==
    /\ adminRequests[r].kind = "createProduct"
    /\ adminRequests[r].pc = "audit"
    /\ stored => ActorStored(adminRequests[r].user)
    /\ LET req == adminRequests[r]
           product == req.found[1]
           data == ProductAuditData(req.user, "create", product.id,
                     [name |-> product.name, slug |-> product.slug,
                      subcategoryId |-> product.subcategoryId])
       IN IF stored
          THEN /\ auditLogs' = AuditLogModel_create(auditLogs,
                                  NewAuditLog(data, now, AdminTag(r)))
               /\ AdminFinish(r, Respond(200, "Product created successfully", req.found))
          ELSE /\ AdminAuditFailed(r)
               /\ UNCHANGED auditLogs
    /\ UNCHANGED <<workflowVars, catalogVars, users, products>>

-----------------------------------------------------------------------------
\* DELETE /api/products/:id

\* The request arrives: the middleware chain and await ProductModel.getById(id).
ProductDeleteGetById(user, id) ==
    /\ LET refused == [IdleAdminRequest EXCEPT !.kind = "deleteProduct",
                                               !.user = user, !.pc = "done"]
           found == ProductModel_getById(products, id)
       IN Arrive(
            IF ~authenticateToken(user)
              THEN [refused EXCEPT !.res = Respond(401, "Not authenticated", <<>>)]
            ELSE IF ~ProductsGuard(user)
              THEN [refused EXCEPT !.res = Respond(403, "Insufficient permissions", <<>>)]
            ELSE IF found = <<>>
              THEN [refused EXCEPT !.id = id,
                      !.res = Respond(404, "Product not found", <<>>)]
            ELSE [IdleAdminRequest EXCEPT !.kind = "deleteProduct", !.user = user,
                    !.id = id, !.pc = "write", !.found = found])
    /\ UNCHANGED <<workflowVars, catalogVars, auditLogs, users, products>>

\* const success = await ProductModel.delete(id); if (!success) 404
ProductDelete(r) ==
    /\ adminRequests[r].kind = "deleteProduct"
    /\ adminRequests[r].pc = "write"
    /\ LET id == adminRequests[r].id
       IN /\ products' = ProductModel_delete(products, id)
          /\ IF Deleted(products, id)
             THEN adminRequests' = [adminRequests EXCEPT ![r].pc = "audit",
                                       ![r].applied = TRUE]
             ELSE AdminFinish(r, Respond(404, "Product not found", <<>>))
    /\ UNCHANGED <<workflowVars, catalogVars, auditLogs, users>>

\* await AuditLogModel.create(...), then res.json(...).
ProductDeleteAudit(r, stored) ==
    /\ adminRequests[r].kind = "deleteProduct"
    /\ adminRequests[r].pc = "audit"
    /\ stored => ActorStored(adminRequests[r].user)
    /\ LET req == adminRequests[r]
           data == ProductAuditData(req.user, "delete", req.id,
                     [name |-> req.found[1].name])
       IN IF stored
          THEN /\ auditLogs' = AuditLogModel_create(auditLogs,
                                  NewAuditLog(data, now, AdminTag(r)))
               /\ AdminFinish(r, Respond(200, "Product deleted successfully", <<>>))
          ELSE /\ AdminAuditFailed(r)
               /\ UNCHANGED auditLogs
    /\ UNCHANGED <<workflowVars, catalogVars, users, products>>

-----------------------------------------------------------------------------
\* The catalog routes: shared steps

\* The middleware chain of the mutating catalog routes, authenticateToken and
\* requireAdmin: the refusal it answers with, or NoResponse.
GuardRefusal(user) ==
    IF ~authenticateToken(user) THEN Respond(401, "Not authenticated", <<>>)
    ELSE IF ~requireAdmin(user) THEN Respond(403, "Insufficient permissions", <<>>)
    ELSE NoResponse

\* The record of a catalog request after its first round trip: answered with
\* `res`, or on its way to its write.  A request the middleware refuses never
\* parses its body.
CatalogRequest(kind, user, id, body, found, res) ==
    IF GuardRefusal(user) # NoResponse
    THEN [IdleAdminRequest EXCEPT !.kind = kind, !.user = user, !.pc = "done",
                                  !.res = GuardRefusal(user)]
    ELSE IF res # NoResponse
    THEN [IdleAdminRequest EXCEPT !.kind = kind, !.user = user, !.id = id,
                                  !.body = body, !.pc = "done", !.res = res]
    ELSE [IdleAdminRequest EXCEPT !.kind = kind, !.user = user, !.id = id,
                                  !.body = body, !.pc = "write", !.found = found]

\* await AuditLogModel.create(...), then res.json(...); a rejected insert
\* lands in the handler's catch block.
AuditStep(r, stored, data, res) ==
    IF stored
    THEN /\ auditLogs' = AuditLogModel_create(auditLogs,
                            NewAuditLog(data, now, AdminTag(r)))
         /\ AdminFinish(r, res)
    ELSE /\ AdminAuditFailed(r)
         /\ UNCHANGED auditLogs

CatalogAuditData(user, action, resourceType, id, details) ==
    [ userId |-> user.userId, action |-> action, resourceType |-> resourceType,
      resourceId |-> id, details |-> details ]

-----------------------------------------------------------------------------
\* PATCH /api/products/:id

\* Request bodies of PATCH /api/products/:id; NULL is a field left out.
UpdateProductBodies ==
    { [subcategoryId |-> NULL, slug |-> "fern"],
      [subcategoryId |-> NULL, slug |-> "planter"],
      [subcategoryId |-> "sc2", slug |-> NULL],
      [subcategoryId |-> "sc0", slug |-> NULL] }

\* subcategoryId and slug: z.string().min(1).optional()
updateProductSchema(body) == body.subcategoryId # "" /\ body.slug # ""

\* The UPDATE of ProductModel.update: WHERE id = $1.
ProductModel_update(table, id, data) ==
    [ i \in DOMAIN table |-> IF i = id THEN Set(table[i], data) ELSE table[i] ]

\* The request arrives: the middleware chain, the body validation and, when
\* the body names a slug, await ProductModel.getBySlug(data.slug).
ProductUpdateGetBySlug(user, id, body) ==
    /\ LET existing == IF body.slug # NULL
                       THEN ProductModel_getBySlug(products, body.slug) ELSE <<>>
       IN Arrive(CatalogRequest("updateProduct", user, id, body, <<>>,
            IF ~updateProductSchema(body) THEN Respond(400, "Invalid input", <<>>)
            ELSE IF existing # <<>> /\ existing[1].id # id
              THEN Respond(400, "Product with this slug already exists", <<>>)
            ELSE NoResponse))
    /\ UNCHANGED <<workflowVars, catalogVars, auditLogs, users, products>>

\* const product = await ProductModel.update(id, ...); if (!product) 404.  An
\* update the unique constraint or the foreign key refuses lands in the
\* handler's catch block.
ProductUpdate(r) ==
    /\ adminRequests[r].kind = "updateProduct"
    /\ adminRequests[r].pc = "write"
    /\ LET id == adminRequests[r].id
           table == ProductModel_update(products, id, adminRequests[r].body)
       IN IF id \notin DOMAIN products
          THEN /\ AdminFinish(r, Respond(404, "Product not found", <<>>))
               /\ UNCHANGED products
          ELSE IF \/ ~UniqueSlug(products, id, table[id].slug)
                  \/ ~References(subcategories, table[id].subcategoryId)
          THEN /\ AdminFinish(r, Respond(500, "Internal server error", <<>>))
               /\ UNCHANGED products
          ELSE /\ products' = table
               /\ adminRequests' = [adminRequests EXCEPT ![r].pc = "audit",
                     ![r].found = <<table[id]>>, ![r].applied = TRUE]
    /\ UNCHANGED <<workflowVars, catalogVars, auditLogs, users>>

\* await AuditLogModel.create(...), then res.json(...).
ProductUpdateAudit(r, stored) ==
    /\ adminRequests[r].kind = "updateProduct"
    /\ adminRequests[r].pc = "audit"
    /\ stored => ActorStored(adminRequests[r].user)
    /\ LET req == adminRequests[r]
       IN AuditStep(r, stored,
             CatalogAuditData(req.user, "update", "product", req.id, req.body),
             Respond(200, "Product updated successfully", req.found))
    /\ UNCHANGED <<workflowVars, catalogVars, users, products>>

-----------------------------------------------------------------------------
\* CategoryModel

CategoryModel_getById(table, id) ==
    IF id \in DOMAIN table THEN <<table[id]>> ELSE <<>>

CategoryModel_getBySlug(table, slug) ==
    IF \E i \in DOMAIN table : table[i].slug = slug
    THEN <<table[CHOOSE i \in DOMAIN table : table[i].slug = slug]>>
    ELSE <<>>

\* The row inserted by CategoryModel.create: the given values and the column
\* defaults of the table.
NewCategory(id, data) ==
    [ id |-> id, name |-> data.name, slug |-> data.slug, isActive |-> TRUE ]

CategoryModel_update(table, id, data) ==
    [ i \in DOMAIN table |-> IF i = id THEN Set(table[i], data) ELSE table[i] ]

CategoryModel_delete(table, id) == [ i \in DOMAIN table \ {id} |-> table[i] ]

\* The id the database gives the category inserted by the r-th request.
CategoryId(r) == "c" \o ToString(r + 2)

\* The :id path parameters of the category routes: a seeded id and one that
\* no row has.
CategoryIds == {"c1", "c0"}

\* Request bodies of POST /api/categories.
CategoryBodies ==
    { [name |-> "Herbs", slug |-> "herbs"],
      [name |-> "Greens", slug |-> "plants"],
      [name |-> "Herbs", slug |-> ""] }

\* name and slug: z.string().min(1)
createCategorySchema(body) == body.name # "" /\ body.slug # ""

\* Request bodies of PATCH /api/categories/:id; NULL is a field left out.
UpdateCategoryBodies ==
    { [name |-> NULL, slug |-> "herbs"],
      [name |-> NULL, slug |-> "plants"],
      [name |-> "Flora", slug |-> NULL] }

\* name and slug: z.string().min(1).optional()
updateCategorySchema(body) == body.name # "" /\ body.slug # ""

-----------------------------------------------------------------------------
\* POST /api/categories

\* The request arrives: the middleware chain, the body validation and await
\* CategoryModel.getBySlug(data.slug).
CategoryCreateGetBySlug(user, body) ==
    /\ Arrive(CatalogRequest("createCategory", user, NULL, body, <<>>,
          IF ~createCategorySchema(body) THEN Respond(400, "Invalid input", <<>>)
          ELSE IF CategoryModel_getBySlug(categories, body.slug) # <<>>
            THEN Respond(400, "Category with this slug already exists", <<>>)
          ELSE NoResponse))
    /\ UNCHANGED <<workflowVars, catalogVars, auditLogs, users, products>>

\* await CategoryModel.create(...); an insert the unique constraint on slug
\* refuses lands in the handler's catch block.
CategoryCreate(r) ==
    /\ adminRequests[r].kind = "createCategory"
    /\ adminRequests[r].pc = "write"
    /\ LET row == NewCategory(CategoryId(r), adminRequests[r].body)
       IN IF ~UniqueSlug(categories, row.id, row.slug)
          THEN /\ AdminFinish(r, Respond(500, "Internal server error", <<>>))
               /\ UNCHANGED categories
          ELSE /\ categories' = (row.id :> row) @@ categories
               /\ adminRequests' = [adminRequests EXCEPT ![r].pc = "audit",
                     ![r].id = row.id, ![r].found = <<row>>, ![r].applied = TRUE]
    /\ UNCHANGED <<workflowVars, auditLogs, users, products, subcategories>>

\* await AuditLogModel.create(...), then res.json(...).
CategoryCreateAudit(r, stored) ==
    /\ adminRequests[r].kind = "createCategory"
    /\ adminRequests[r].pc = "audit"
    /\ stored => ActorStored(adminRequests[r].user)
    /\ LET req == adminRequests[r]
           category == req.found[1]
       IN AuditStep(r, stored,
             CatalogAuditData(req.user, "create", "category", category.id,
                [name |-> category.name, slug |-> category.slug]),
             Respond(200, "Category created successfully", req.found))
    /\ UNCHANGED <<workflowVars, catalogVars, users, products>>

-----------------------------------------------------------------------------
\* PATCH /api/categories/:id

\* The request arrives: the middleware chain, the body validation and, when
\* the body names a slug, await CategoryModel.getBySlug(data.slug).
CategoryUpdateGetBySlug(user, id, body) ==
    /\ LET existing == IF body.slug # NULL
                       THEN CategoryModel_getBySlug(categories, body.slug) ELSE <<>>
       IN Arrive(CatalogRequest("updateCategory", user, id, body, <<>>,
            IF ~updateCategorySchema(body) THEN Respond(400, "Invalid input", <<>>)
            ELSE IF existing # <<>> /\ existing[1].id # id
              THEN Respond(400, "Category with this slug already exists", <<>>)
            ELSE NoResponse))
    /\ UNCHANGED <<workflowVars, catalogVars, auditLogs, users, products>>

\* const category = await CategoryModel.update(id, ...); if (!category) 404.
CategoryUpdate(r) ==
    /\ adminRequests[r].kind = "updateCategory"
    /\ adminRequests[r].pc = "write"
    /\ LET id == adminRequests[r].id
           table == CategoryModel_update(categories, id, adminRequests[r].body)
       IN IF id \notin DOMAIN categories
          THEN /\ AdminFinish(r, Respond(404, "Category not found", <<>>))
               /\ UNCHANGED categories
          ELSE IF ~UniqueSlug(categories, id, table[id].slug)
          THEN /\ AdminFinish(r, Respond(500, "Internal server error", <<>>))
               /\ UNCHANGED categories
          ELSE /\ categories' = table
               /\ adminRequests' = [adminRequests EXCEPT ![r].pc = "audit",
                     ![r].found = <<table[id]>>, ![r].applied = TRUE]
    /\ UNCHANGED <<workflowVars, auditLogs, users, products, subcategories>>

\* await AuditLogModel.create(...), then res.json(...).
CategoryUpdateAudit(r, stored) ==
    /\ adminRequests[r].kind = "updateCategory"
    /\ adminRequests[r].pc = "audit"
    /\ stored => ActorStored(adminRequests[r].user)
    /\ LET req == adminRequests[r]
       IN AuditStep(r, stored,
             CatalogAuditData(req.user, "update", "category", req.id, req.body),
             Respond(200, "Category updated successfully", req.found))
    /\ UNCHANGED <<workflowVars, catalogVars, users, products>>

-----------------------------------------------------------------------------
\* DELETE /api/categories/:id

\* The request arrives: the middleware chain and await CategoryModel.getById(id).
CategoryDeleteGetById(user, id) ==
    /\ LET found == CategoryModel_getById(categories, id)
       IN Arrive(CatalogRequest("deleteCategory", user, id, NULL, found,
            IF found = <<>> THEN Respond(404, "Category not found", <<>>)
            ELSE NoResponse))
    /\ UNCHANGED <<workflowVars, catalogVars, auditLogs, users, products>>

\* const success = await CategoryModel.delete(id); if (!success) 404.  The
\* DELETE takes the subcategories of the category and their products with it.
CategoryDelete(r) ==
    /\ adminRequests[r].kind = "deleteCategory"
    /\ adminRequests[r].pc = "write"
    /\ LET id == adminRequests[r].id
           table == CategoryModel_delete(categories, id)
           children == OnDeleteCascade(subcategories, "categoryId", table)
       IN /\ categories' = table
          /\ subcategories' = children
          /\ products' = OnDeleteCascade(products, "subcategoryId", children)
          /\ IF Deleted(categories, id)
             THEN adminRequests' = [adminRequests EXCEPT ![r].pc = "audit",
                                       ![r].applied = TRUE]
             ELSE AdminFinish(r, Respond(404, "Category not found", <<>>))
    /\ UNCHANGED <<workflowVars, auditLogs, users>>

\* await AuditLogModel.create(...), then res.json(...).
CategoryDeleteAudit(r, stored) ==
    /\ adminRequests[r].kind = "deleteCategory"
    /\ adminRequests[r].pc = "audit"
    /\ stored => ActorStored(adminRequests[r].user)
    /\ LET req == adminRequests[r]
       IN AuditStep(r, stored,
             CatalogAuditData(req.user, "delete", "category", req.id,
                [name |-> req.found[1].name]),
             Respond(200, "Category deleted successfully", <<>>))
    /\ UNCHANGED <<workflowVars, catalogVars, users, products>>

-----------------------------------------------------------------------------
\* SubcategoryModel

SubcategoryModel_getById(table, id) ==
    IF id \in DOMAIN table THEN <<table[id]>> ELSE <<>>

SubcategoryModel_getBySlug(table, slug) ==
    IF \E i \in DOMAIN table : table[i].slug = slug
    THEN <<table[CHOOSE i \in DOMAIN table : table[i].slug = slug]>>
    ELSE <<>>

\* The row inserted by SubcategoryModel.create: the given values and the
\* column defaults of the table.
NewSubcategory(id, data) ==
    [ id |-> id, categoryId |-> data.categoryId, name |-> data.name,
      slug |-> data.slug, isActive |-> TRUE ]

SubcategoryModel_update(table, id, data) ==
    [ i \in DOMAIN table |-> IF i = id THEN Set(table[i], data) ELSE table[i] ]

SubcategoryModel_delete(table, id) == [ i \in DOMAIN table \ {id} |-> table[i] ]

\* The id the database gives the subcategory inserted by the r-th request.
SubcategoryId(r) == "sc" \o ToString(r + 2)

\* The :id path parameters of the subcategory routes: a seeded id and one
\* that no row has.
SubcategoryIds == {"sc1", "sc0"}

\* Request bodies of POST /api/subcategories.
SubcategoryBodies ==
    { [categoryId |-> "c1", name |-> "Outdoor", slug |-> "outdoor"],
      [categoryId |-> "c1", name |-> "Inside", slug |-> "indoor"],
      [categoryId |-> "c0", name |-> "Outdoor", slug |-> "outdoor"] }

\* categoryId, name and slug: z.string().min(1)
createSubcategorySchema(body) ==
    body.categoryId # "" /\ body.name # "" /\ body.slug # ""

\* Request bodies of PATCH /api/subcategories/:id; NULL is a field left out.
UpdateSubcategoryBodies ==
    { [categoryId |-> NULL, slug |-> "outdoor"],
      [categoryId |-> NULL, slug |-> "indoor"],
      [categoryId |-> "c2", slug |-> NULL],
      [categoryId |-> "c0", slug |-> NULL] }

\* categoryId and slug: z.string().min(1).optional()
updateSubcategorySchema(body) == body.categoryId # "" /\ body.slug # ""

-----------------------------------------------------------------------------
\* POST /api/subcategories

\* The request arrives: the middleware chain, the body validation and await
\* SubcategoryModel.getBySlug(data.slug).
SubcategoryCreateGetBySlug(user, body) ==
    /\ Arrive(CatalogRequest("createSubcategory", user, NULL, body, <<>>,
          IF ~createSubcategorySchema(body) THEN Respond(400, "Invalid input", <<>>)
          ELSE IF SubcategoryModel_getBySlug(subcategories, body.slug) # <<>>
            THEN Respond(400, "Subcategory with this slug already exists", <<>>)
          ELSE NoResponse))
    /\ UNCHANGED <<workflowVars, catalogVars, auditLogs, users, products>>

\* await SubcategoryModel.create(...); an insert that the unique constraint
\* on slug or the foreign key on category_id refuses lands in the handler's
\* catch block.
SubcategoryCreate(r) ==
    /\ adminRequests[r].kind = "createSubcategory"
    /\ adminRequests[r].pc = "write"
    /\ LET row == NewSubcategory(SubcategoryId(r), adminRequests[r].body)
       IN IF \/ ~UniqueSlug(subcategories, row.id, row.slug)
             \/ ~References(categories, row.categoryId)
          THEN /\ AdminFinish(r, Respond(500, "Internal server error", <<>>))
               /\ UNCHANGED subcategories
          ELSE /\ subcategories' = (row.id :> row) @@ subcategories
               /\ adminRequests' = [adminRequests EXCEPT ![r].pc = "audit",
                     ![r].id = row.id, ![r].found = <<row>>, ![r].applied = TRUE]
    /\ UNCHANGED <<workflowVars, auditLogs, users, products, categories>>

\* await AuditLogModel.create(...), then res.json(...).
SubcategoryCreateAudit(r, stored) ==
    /\ adminRequests[r].kind = "createSubcategory"
    /\ adminRequests[r].pc = "audit"
    /\ stored => ActorStored(adminRequests[r].user)
    /\ LET req == adminRequests[r]
           subcategory == req.found[1]
       IN AuditStep(r, stored,
             CatalogAuditData(req.user, "create", "subcategory", subcategory.id,
                [name |-> subcategory.name, slug |-> subcategory.slug,
                 categoryId |-> subcategory.categoryId]),
             Respond(200, "Subcategory created successfully", req.found))
    /\ UNCHANGED <<workflowVars, catalogVars, users, products>>

-----------------------------------------------------------------------------
\* PATCH /api/subcategories/:id

\* The request arrives: the middleware chain, the body validation and, when
\* the body names a slug, await SubcategoryModel.getBySlug(data.slug).
SubcategoryUpdateGetBySlug(user, id, body) ==
    /\ LET existing == IF body.slug # NULL
                       THEN SubcategoryModel_getBySlug(subcategories, body.slug)
                       ELSE <<>>
       IN Arrive(CatalogRequest("updateSubcategory", user, id, body, <<>>,
            IF ~updateSubcategorySchema(body) THEN Respond(400, "Invalid input", <<>>)
            ELSE IF existing # <<>> /\ existing[1].id # id
              THEN Respond(400, "Subcategory with this slug already exists", <<>>)
            ELSE NoResponse))
    /\ UNCHANGED <<workflowVars, catalogVars, auditLogs, users, products>>

\* const subcategory = await SubcategoryModel.update(id, ...); if
\* (!subcategory) 404.  An update the unique constraint or the foreign key
\* refuses lands in the handler's catch block.
SubcategoryUpdate(r) ==
    /\ adminRequests[r].kind = "updateSubcategory"
    /\ adminRequests[r].pc = "write"
    /\ LET id == adminRequests[r].id
           table == SubcategoryModel_update(subcategories, id, adminRequests[r].body)
       IN IF id \notin DOMAIN subcategories
          THEN /\ AdminFinish(r, Respond(404, "Subcategory not found", <<>>))
               /\ UNCHANGED subcategories
          ELSE IF \/ ~UniqueSlug(subcategories, id, table[id].slug)
                  \/ ~References(categories, table[id].categoryId)
          THEN /\ AdminFinish(r, Respond(500, "Internal server error", <<>>))
               /\ UNCHANGED subcategories
          ELSE /\ subcategories' = table
               /\ adminRequests' = [adminRequests EXCEPT ![r].pc = "audit",
                     ![r].found = <<table[id]>>, ![r].applied = TRUE]
    /\ UNCHANGED <<workflowVars, auditLogs, users, products, categories>>

\* await AuditLogModel.create(...), then res.json(...).
SubcategoryUpdateAudit(r, stored) ==
    /\ adminRequests[r].kind = "updateSubcategory"
    /\ adminRequests[r].pc = "audit"
    /\ stored => ActorStored(adminRequests[r].user)
    /\ LET req == adminRequests[r]
       IN AuditStep(r, stored,
             CatalogAuditData(req.user, "update", "subcategory", req.id, req.body),
             Respond(200, "Subcategory updated successfully", req.found))
    /\ UNCHANGED <<workflowVars, catalogVars, users, products>>

-----------------------------------------------------------------------------
\* DELETE /api/subcategories/:id

\* The request arrives: the middleware chain and await
\* SubcategoryModel.getById(id).
SubcategoryDeleteGetById(user, id) ==
    /\ LET found == SubcategoryModel_getById(subcategories, id)
       IN Arrive(CatalogRequest("deleteSubcategory", user, id, NULL, found,
            IF found = <<>> THEN Respond(404, "Subcategory not found", <<>>)
            ELSE NoResponse))
    /\ UNCHANGED <<workflowVars, catalogVars, auditLogs, users, products>>

\* const success = await SubcategoryModel.delete(id); if (!success) 404.  The
\* DELETE takes the products of the subcategory with it.
SubcategoryDelete(r) ==
    /\ adminRequests[r].kind = "deleteSubcategory"
    /\ adminRequests[r].pc = "write"
    /\ LET id == adminRequests[r].id
           table == SubcategoryModel_delete(subcategories, id)
       IN /\ subcategories' = table
          /\ products' = OnDeleteCascade(products, "subcategoryId", table)
          /\ IF Deleted(subcategories, id)
             THEN adminRequests' = [adminRequests EXCEPT ![r].pc = "audit",
                                       ![r].applied = TRUE]
             ELSE AdminFinish(r, Respond(404, "Subcategory not found", <<>>))
    /\ UNCHANGED <<workflowVars, auditLogs, users, categories>>

\* await AuditLogModel.create(...), then res.json(...).
SubcategoryDeleteAudit(r, stored) ==
    /\ adminRequests[r].kind = "deleteSubcategory"
    /\ adminRequests[r].pc = "audit"
    /\ stored => ActorStored(adminRequests[r].user)
    /\ LET req == adminRequests[r]
       IN AuditStep(r, stored,
             CatalogAuditData(req.user, "delete", "subcategory", req.id,
                [name |-> req.found[1].name]),
             Respond(200, "Subcategory deleted successfully", <<>>))
    /\ UNCHANGED <<workflowVars, catalogVars, users, products>>

-----------------------------------------------------------------------------
\* The catalog routes on their own: the mutating routes of /api/categories,
\* /api/subcategories and /api/products, called by both admins and by the
\* editor, MaxSystemRequests requests in all.

\* The callers of the catalog routes.  The handlers use the caller for the
\* role guard and for the actor of the audit entry only, so the admins are
\* interchangeable: the first request comes from the first admin, the later
\* ones from the second admin or from the editor.
CatalogCallers ==
    IF adminRequests = <<>>
    THEN { u \in Users : u.userId = "admin1" }
    ELSE { u \in Users : u.userId \in {"admin2", "editor1"} }

CatalogNext ==
    \/ \E user \in CatalogCallers, body \in CategoryBodies :
          CategoryCreateGetBySlug(user, body)
    \/ \E r \in AdminSlots : CategoryCreate(r)
    \/ \E r \in AdminSlots, stored \in BOOLEAN : CategoryCreateAudit(r, stored)
    \/ \E user \in CatalogCallers, id \in CategoryIds, body \in UpdateCategoryBodies :
          CategoryUpdateGetBySlug(user, id, body)
    \/ \E r \in AdminSlots : CategoryUpdate(r)
    \/ \E r \in AdminSlots, stored \in BOOLEAN : CategoryUpdateAudit(r, stored)
    \/ \E user \in CatalogCallers, id \in CategoryIds : CategoryDeleteGetById(user, id)
    \/ \E r \in AdminSlots : CategoryDelete(r)
    \/ \E r \in AdminSlots, stored \in BOOLEAN : CategoryDeleteAudit(r, stored)
    \/ \E user \in CatalogCallers, body \in SubcategoryBodies :
          SubcategoryCreateGetBySlug(user, body)
    \/ \E r \in AdminSlots : SubcategoryCreate(r)
    \/ \E r \in AdminSlots, stored \in BOOLEAN : SubcategoryCreateAudit(r, stored)
    \/ \E user \in CatalogCallers, id \in SubcategoryIds, body \in UpdateSubcategoryBodies :
          SubcategoryUpdateGetBySlug(user, id, body)
    \/ \E r \in AdminSlots : SubcategoryUpdate(r)
    \/ \E r \in AdminSlots, stored \in BOOLEAN : SubcategoryUpdateAudit(r, stored)
    \/ \E user \in CatalogCallers, id \in SubcategoryIds : SubcategoryDeleteGetById(user, id)
    \/ \E r \in AdminSlots : SubcategoryDelete(r)
    \/ \E r \in AdminSlots, stored \in BOOLEAN : SubcategoryDeleteAudit(r, stored)
    \/ \E user \in CatalogCallers, body \in ProductBodies :
          ProductCreateGetBySlug(user, body)
    \/ \E r \in AdminSlots : ProductCreate(r)
    \/ \E r \in AdminSlots, stored \in BOOLEAN : ProductCreateAudit(r, stored)
    \/ \E user \in CatalogCallers, id \in ProductIds, body \in UpdateProductBodies :
          ProductUpdateGetBySlug(user, id, body)
    \/ \E r \in AdminSlots : ProductUpdate(r)
    \/ \E r \in AdminSlots, stored \in BOOLEAN : ProductUpdateAudit(r, stored)
    \/ \E user \in CatalogCallers, id \in ProductIds : ProductDeleteGetById(user, id)
    \/ \E r \in AdminSlots : ProductDelete(r)
    \/ \E r \in AdminSlots, stored \in BOOLEAN : ProductDeleteAudit(r, stored)

CatalogSpec == Init /\ [][CatalogNext]_vars

-----------------------------------------------------------------------------
\* The auditLog middleware
\*
\* auditLog(action, resourceType) returns a middleware that wraps res.json.
\* No route of the sources mounts it; it is modelled in front of a handler
\* that answers with one call of res.status(...).json(...).

\* The arguments the middleware is built with.
MountedAction == "update"
MountedResourceType == "product"

\* req.user at the time the middleware runs.
MiddlewareCallers == { u \in Callers : u.userId # "admin2" }

\* req.params.id: absent, or the id in the path.
MiddlewareParams == { [id |-> NULL], [id |-> "p1"] }

\* What the handler behind the middleware passes to res.status(...).json(...):
\* the body of a success names the row under data, the body of a refusal
\* carries an error.
HandlerResponses ==
    { [status |-> 200, data |-> [id |-> NULL, data |-> [id |-> "p2"], error |-> NULL]],
      [status |-> 201, data |-> [id |-> "p3", data |-> [id |-> NULL], error |-> NULL]],
      [status |-> 400, data |-> [id |-> NULL, data |-> [id |-> NULL], error |-> "Invalid input"]],
      [status |-> 500, data |-> [id |-> NULL, data |-> [id |-> NULL],
                                 error |-> "Internal server error"]] }

\* ShouldLog counting the status 400 as a success.
ShouldLogUpTo400(statusCode) == statusCode <= 400

\* if (res.statusCode < 400)
ShouldLog(statusCode) == statusCode < 400

\* const resourceId = req.params.id || data?.id || data?.data?.id
ResourceId(params, data) ==
    IF params.id # NULL THEN params.id
    ELSE IF data.id # NULL THEN data.id
    ELSE data.data.id

\* The values passed to AuditLogModel.create by the wrapped res.json.
MiddlewareAuditData(user, params, data) ==
    [ userId |-> user.userId, action |-> MountedAction,
      resourceType |-> MountedResourceType,
      resourceId |-> ResourceId(params, data), details |-> params ]

\* The middleware runs: if (req.user) it replaces res.json by its wrapper,
\* then calls next().
AuditLogMiddleware(user, params) ==
    /\ Arrive([IdleAdminRequest EXCEPT !.kind = "auditLog", !.user = user,
                  !.id = params.id, !.pc = "handler",
                  !.applied = authenticateToken(user)])
    /\ UNCHANGED <<workflowVars, catalogVars, auditLogs, users, products>>

\* The handler calls res.status(statusCode).json(data).  The wrapper, when
\* there is one, starts AuditLogModel.create(...) for a status below 400
\* without awaiting it, and in every case hands data to the original res.json.
HandlerResponds(r, response) ==
    /\ adminRequests[r].kind = "auditLog"
    /\ adminRequests[r].pc = "handler"
    /\ adminRequests' = [adminRequests EXCEPT
          ![r].res = Respond(response.status, "", <<response.data>>),
          ![r].pc = IF adminRequests[r].applied /\ ShouldLog(response.status)
                    THEN "insert" ELSE "done"]
    /\ UNCHANGED <<workflowVars, catalogVars, auditLogs, users, products>>

\* The promise of AuditLogModel.create(...) settles: the row is stored, or
\* the rejection is caught and logged to the console.
AuditLogInsert(r, stored) ==
    /\ adminRequests[r].kind = "auditLog"
    /\ adminRequests[r].pc = "insert"
    /\ stored => ActorStored(adminRequests[r].user)
    /\ LET req == adminRequests[r]
           data == MiddlewareAuditData(req.user, [id |-> req.id], req.res.data[1])
       IN IF stored
          THEN /\ auditLogs' = AuditLogModel_create(auditLogs,
                                  NewAuditLog(data, now, AdminTag(r)))
               /\ adminRequests' = [adminRequests EXCEPT ![r].pc = "done"]
          ELSE /\ adminRequests' = [adminRequests EXCEPT ![r].pc = "done",
                                       ![r].auditFailed = TRUE]
               /\ UNCHANGED auditLogs
    /\ UNCHANGED <<workflowVars, catalogVars, users, products>>

MiddlewareNext ==
    \/ \E user \in MiddlewareCallers, params \in MiddlewareParams :
          AuditLogMiddleware(user, params)
    \/ \E r \in AdminSlots, response \in HandlerResponses : HandlerResponds(r, response)
    \/ \E r \in AdminSlots, stored \in BOOLEAN : AuditLogInsert(r, stored)

MiddlewareSpec == Init /\ [][MiddlewareNext]_vars

-----------------------------------------------------------------------------
\* The whole server: the pending-change routes together with the user, auth
\* and product routes, MaxSystemRequests requests in all.

\* A request of the pending-change routes arrives.
WorkflowArrival ==
    /\ nextRequest + Len(adminRequests) < MaxSystemRequests
    /\ \/ \E user \in Callers, body \in SubmitBodies : SubmitCreate(user, body)
       \/ \E user \in Callers, id \in KnownIds, body \in ReviewBodies :
             ReviewGetById(user, id, body)
       \/ \E id \in IssuedIds : Delete(id)

\* A handler of the pending-change routes takes its next step.
WorkflowStep ==
    \/ \E r \in Slots, stored \in BOOLEAN : SubmitAudit(r, stored)
    \/ \E r \in Slots : ReviewUpdate(r)
    \/ \E r \in Slots, stored \in BOOLEAN : ReviewAudit(r, stored)

SystemNext ==
    \/ WorkflowArrival
    \/ WorkflowStep
    \/ \E user \in AdminCallers, id \in UserIds, body \in RoleBodies :
          UserRoleFindById(user, id, body)
    \/ \E r \in AdminSlots : UserRoleUpdate(r)
    \/ \E r \in AdminSlots, stored \in BOOLEAN : UserRoleAudit(r, stored)
    \/ \E user \in AdminCallers, id \in UserIds, body \in ActiveBodies :
          UserActiveFindById(user, id, body)
    \/ \E r \in AdminSlots : UserActiveToggle(r)
    \/ \E r \in AdminSlots, stored \in BOOLEAN : UserActiveAudit(r, stored)
    \/ \E user \in AdminCallers, id \in UserIds : UserDeleteFindById(user, id)
    \/ \E r \in AdminSlots : UserDeleteById(r)
    \/ \E r \in AdminSlots, stored \in BOOLEAN : UserDeleteAudit(r, stored)
    \/ \E user \in AdminCallers, body \in ChangePasswordBodies :
          ChangePasswordFindById(user, body)
    \/ \E r \in AdminSlots : ChangePasswordUpdate(r)
    \/ \E user \in AdminCallers, body \in CreateUserBodies :
          UserCreateFindByEmail(user, body)
    \/ \E r \in AdminSlots : UserCreate(r)
    \/ \E r \in AdminSlots, stored \in BOOLEAN : UserCreateAudit(r, stored)
    \/ \E body \in LoginBodies : Login(body)
    \/ \E user \in AdminCallers, body \in ProductBodies :
          ProductCreateGetBySlug(user, body)
    \/ \E r \in AdminSlots : ProductCreate(r)
    \/ \E r \in AdminSlots, stored \in BOOLEAN : ProductCreateAudit(r, stored)
    \/ \E user \in AdminCallers, id \in ProductIds : ProductDeleteGetById(user, id)
    \/ \E r \in AdminSlots : ProductDelete(r)
    \/ \E r \in AdminSlots, stored \in BOOLEAN : ProductDeleteAudit(r, stored)

SystemSpec == Init /\ [][SystemNext]_vars

-----------------------------------------------------------------------------
\* The error taxonomy, read off the responses

Succeeded(req) == req.pc = "done" /\ req.res.status = 200

PolicyViolation(res) ==
    res.status = 400 /\ res.error = "Super admins do not need approval for changes"

NotFound(res) == res.status = 404 /\ res.error = "Pending change not found"

InvalidState(res) ==
    res.status = 400 /\ res.error = "This change has already been reviewed"

\* The audit rows written by the request in slot r.
AuditRowsOf(r) == { i \in 1..Len(auditLogs) : auditLogs[i].request = r }

\* Review requests that passed the middleware chain and the body validation.
IsReview(r) == requests[r].kind = "review" /\ requests[r].id # NULL

\* Review requests that read their row while it was pending.
ReadPending(r) == IsReview(r) /\ requests[r].pendingChange # <<>>

-----------------------------------------------------------------------------
\* C1: of two review requests with different decisions that are in flight
\* together on the same pending change (both read it while it was pending),
\* where the change is not purged and no audit write fails, exactly one is
\* answered with success and the other with InvalidState, and the stored
\* status is the decision of the one that succeeded.
C1_ConcurrentReviewOneWinner ==
    \A q1 \in Slots : \A q2 \in Slots \ {q1} :
        ( /\ ReadPending(q1) /\ ReadPending(q2)
          /\ requests[q1].id = requests[q2].id
          /\ requests[q1].body.status # requests[q2].body.status
          /\ requests[q1].pc = "done" /\ requests[q2].pc = "done"
          /\ ~requests[q1].auditFailed /\ ~requests[q2].auditFailed
          /\ requests[q1].id \in DOMAIN pendingChanges )
        =>
        \E w \in {q1, q2} : \E l \in {q1, q2} \ {w} :
            /\ Succeeded(requests[w])
            /\ InvalidState(requests[l].res)
            /\ pendingChanges[requests[w].id].status = requests[w].body.status

\* C2: a review request that arrives after a review of the same stored change
\* has been answered with success is answered at once with InvalidState; the
\* step changes no pending_changes row and writes no audit row, and the
\* request takes no further step.
C2_ReviewAfterSuccessRefused ==
    [][ \A r \in Slots :
          ( /\ requests[r].kind = "none"
            /\ requests'[r].kind = "review"
            /\ requests'[r].id \in DOMAIN pendingChanges
            /\ ReviewSucceeded(requests'[r].id) )
          =>
          ( /\ requests'[r].afterSuccess
            /\ requests'[r].pc = "done"
            /\ InvalidState(requests'[r].res)
            /\ pendingChanges' = pendingChanges
            /\ auditLogs' = auditLogs ) ]_vars

C2_Witness ==
    \E r \in Slots :
        /\ IsReview(r)
        /\ requests[r].afterSuccess
        /\ requests[r].id \in DOMAIN pendingChanges
        /\ InvalidState(requests[r].res)

\* C3: a stored pending change whose status is approved or rejected keeps its
\* status, reviewer, review timestamp and review notes in every later step.
C3_TerminalNeverChanges ==
    [][ \A id \in DOMAIN pendingChanges \cap DOMAIN pendingChanges' :
          pendingChanges[id].status # "pending"
          =>
          ( /\ pendingChanges'[id].status = pendingChanges[id].status
            /\ pendingChanges'[id].reviewedBy = pendingChanges[id].reviewedBy
            /\ pendingChanges'[id].reviewedAt = pendingChanges[id].reviewedAt
            /\ pendingChanges'[id].reviewNotes = pendingChanges[id].reviewNotes ) ]_vars

\* C4: a submit or review request whose audit write failed after its primary
\* write succeeded is answered with its normal success result: status 200
\* and the pending change.
C4_AuditFailureStillSuccess ==
    \A r \in Slots :
        (requests[r].pc = "done" /\ requests[r].auditFailed)
        =>
        ( /\ requests[r].res.status = 200
          /\ requests[r].res.data =
                IF requests[r].kind = "submit" THEN requests[r].pendingChange
                ELSE requests[r].reviewed )

\* C5: a submit request of an admin identity is answered with PolicyViolation
\* whatever its body, no pending change submitted by an admin is ever stored
\* and the request writes no audit row.
C5_AdminSubmitRefused ==
    \A r \in Slots :
        (requests[r].kind = "submit" /\ requests[r].user.role = ADMIN)
        =>
        ( /\ requests[r].pc = "done"
          /\ PolicyViolation(requests[r].res)
          /\ AuditRowsOf(r) = {}
          /\ \A id \in DOMAIN pendingChanges :
                pendingChanges[id].userId # requests[r].user.userId )

C5_Witness ==
    \E r \in Slots :
        /\ requests[r].kind = "submit"
        /\ requests[r].user.role = ADMIN
        /\ PolicyViolation(requests[r].res)
        /\ DOMAIN pendingChanges # {}

\* C6: a submit request answered with success has written exactly one audit
\* row: action create, resource type pending_change, the submitter as actor
\* and the id of the pending change it created as resource id.
C6_SubmitAuditedOnce ==
    \A r \in Slots :
        (requests[r].kind = "submit" /\ Succeeded(requests[r]))
        =>
        ( /\ Cardinality(AuditRowsOf(r)) = 1
          /\ \A i \in AuditRowsOf(r) :
                /\ auditLogs[i].action = "create"
                /\ auditLogs[i].resourceType = "pending_change"
                /\ auditLogs[i].userId = requests[r].user.userId
                /\ auditLogs[i].resourceId = requests[r].res.data[1].id
                /\ requests[r].res.data[1].userId = requests[r].user.userId )

C6_Witness ==
    \E r \in Slots :
        /\ requests[r].kind = "submit"
        /\ Succeeded(requests[r])
        /\ Len(auditLogs) > 1

\* The action the change `id` was submitted with.
SubmittedAction(id) ==
    { requests[q].body.action : q \in { s \in Slots :
          /\ requests[s].kind = "submit"
          /\ requests[s].pendingChange # <<>>
          /\ requests[s].pendingChange[1].id = id } }

SubmittedResourceType(id) ==
    { requests[q].body.resourceType : q \in { s \in Slots :
          /\ requests[s].kind = "submit"
          /\ requests[s].pendingChange # <<>>
          /\ requests[s].pendingChange[1].id = id } }

\* C7: a review request answered with success has written exactly one audit
\* row: action approve for the decision approved and reject for rejected,
\* resource type pending_change, the reviewed id as resource id, the reviewer
\* as actor, and details holding the action and resource type the change was
\* submitted with and the review notes of the request.
C7_ReviewAuditedOnce ==
    \A r \in Slots :
        (requests[r].kind = "review" /\ Succeeded(requests[r]))
        =>
        ( /\ Cardinality(AuditRowsOf(r)) = 1
          /\ \A i \in AuditRowsOf(r) :
                /\ requests[r].body.status = "approved" => auditLogs[i].action = "approve"
                /\ requests[r].body.status = "rejected" => auditLogs[i].action = "reject"
                /\ auditLogs[i].action \in {"approve", "reject"}
                /\ auditLogs[i].resourceType = "pending_change"
                /\ auditLogs[i].resourceId = requests[r].id
                /\ auditLogs[i].userId = requests[r].user.userId
                /\ SubmittedAction(requests[r].id) = {auditLogs[i].details.originalAction}
                /\ SubmittedResourceType(requests[r].id) = {auditLogs[i].details.targetResource}
                /\ auditLogs[i].details.reviewNotes = requests[r].body.reviewNotes )

C7_Witness ==
    \E r \in Slots :
        /\ requests[r].kind = "review"
        /\ Succeeded(requests[r])
        /\ requests[r].body.status = "rejected"
        /\ \E i \in AuditRowsOf(r) : auditLogs[i].action = "reject"

\* C8: every stored pending change with status pending has no reviewer, no
\* review timestamp and no review notes, and every stored pending change with
\* status approved or rejected has a reviewer and a review timestamp.
C8_ReviewMetadata ==
    \A id \in DOMAIN pendingChanges :
        LET row == pendingChanges[id]
        IN /\ row.status \in {"pending", "approved", "rejected"}
           /\ row.status = "pending" =>
                 /\ row.reviewedBy = NULL
                 /\ row.reviewedAt = NullTime
                 /\ row.reviewNotes = NULL
           /\ row.status # "pending" =>
                 /\ row.reviewedBy # NULL
                 /\ row.reviewedAt # NullTime

C8_Witness ==
    \E id \in DOMAIN pendingChanges : \E other \in DOMAIN pendingChanges :
        /\ pendingChanges[id].status = "rejected"
        /\ pendingChanges[id].reviewNotes = NULL
        /\ pendingChanges[other].status = "pending"

C10_ReviewOfMissingNotFound ==
    \A r \in Slots :
        ( /\ IsReview(r) /\ requests[r].pc = "done"
          /\ requests[r].absent /\ ~requests[r].auditFailed )
        =>
        ( /\ NotFound(requests[r].res)
          /\ AuditRowsOf(r) = {} )

-----------------------------------------------------------------------------
\* The price column a change_data document of a product update sets.
PriceIn(changeData) ==
    (("price:12.00" :> "12.00") @@ ("price:10.00" :> "10.00"))[changeData]

\* C11: after a review request has been answered with success, if its
\* decision is approved and the change it read is an update of a stored
\* product, the product has the price of the change's changeData; if its
\* decision is rejected the product is as it was before the review.
C11_ApprovedReviewAppliesMutation ==
    \A r \in Slots :
        ( /\ requests[r].kind = "review" /\ Succeeded(requests[r])
          /\ requests[r].pendingChange # <<>>
          /\ requests[r].pendingChange[1].action = "update"
          /\ requests[r].pendingChange[1].resourceType = "product"
          /\ requests[r].pendingChange[1].resourceId \in DOMAIN products )
        =>
        LET change == requests[r].pendingChange[1]
        IN /\ requests[r].body.status = "approved"
                => products[change.resourceId].price = PriceIn(change.changeData)
           /\ requests[r].body.status = "rejected"
                => products[change.resourceId] = SeedProducts[change.resourceId]

-----------------------------------------------------------------------------
\* The request that arrives in a step of the user, auth and product routes.
Arrived == adminRequests'[Len(adminRequests')]

IsArrival == Len(adminRequests') = Len(adminRequests) + 1

\* Requests of the three user-management handlers of /api/users/:id.
IsUserManagement(req) == req.kind \in {"role", "active", "deleteUser"}

\* C12: in every step a users row whose role is admin stays stored with role
\* admin and the same active flag; and a role, activate/deactivate or delete
\* request that names an admin's row, the caller's own included, is answered
\* with a refusal on arrival (403 with the handler's "admin" text when an
\* admin sends it with a valid body) and changes no users row.
C12_AdminsProtected ==
    [][ /\ \A id \in DOMAIN users :
              users[id].role = ADMIN
              => /\ id \in DOMAIN users'
                 /\ users'[id].role = ADMIN
                 /\ users'[id].isActive = users[id].isActive
        /\ ( /\ IsArrival
             /\ IsUserManagement(Arrived)
             /\ Arrived.id \in DOMAIN users
             /\ users[Arrived.id].role = ADMIN )
           => /\ Arrived.pc = "done"
              /\ Arrived.res.status \in {400, 401, 403}
              /\ users' = users
              /\ (Arrived.user.role = ADMIN /\ Arrived.res.status # 400)
                 => Arrived.res.error \in
                       {"Cannot change admin role", "Cannot deactivate admin",
                        "Cannot delete admin"} ]_vars

C12_Witness ==
    /\ "editor1" \notin DOMAIN users
    /\ \E r \in AdminSlots :
          /\ adminRequests[r].kind = "deleteUser"
          /\ adminRequests[r].user.userId = "admin1"
          /\ adminRequests[r].id = "admin1"
          /\ adminRequests[r].res = Respond(403, "Cannot delete admin", <<>>)

-----------------------------------------------------------------------------
\* C13: in every step of every route (submit, review, purge, user, password
\* and product requests) each stored audit row stays stored, at its place and
\* with all its fields; a step adds at most one row.
C13_AuditLogAppendOnly ==
    [][ /\ Len(auditLogs') \in {Len(auditLogs), Len(auditLogs) + 1}
        /\ \A i \in 1..Len(auditLogs) : auditLogs'[i] = auditLogs[i] ]_vars

\* The delete of a user who has an audit row was tried and refused, and the
\* row is still there.
C13_Witness ==
    \E r \in AdminSlots :
        /\ adminRequests[r].kind = "deleteUser"
        /\ adminRequests[r].res.status = 500
        /\ ~adminRequests[r].auditFailed
        /\ \E i \in 1..Len(auditLogs) : auditLogs[i].userId = adminRequests[r].id

-----------------------------------------------------------------------------
\* The audit rows written by the r-th request of the user, auth and product
\* routes.
AdminAuditRowsOf(r) == { i \in 1..Len(auditLogs) : auditLogs[i].request = AdminTag(r) }

\* C14: every audit row about a user or a product was written by a request
\* whose write changed a row of the store, and a request of the user and
\* product routes answered 400, 401, 403 or 404 wrote no audit row.
C14_AuditOnlyAppliedMutations ==
    /\ \A i \in 1..Len(auditLogs) :
          auditLogs[i].resourceType \in {"user", "product"}
          => /\ 0 - auditLogs[i].request \in AdminSlots
             /\ adminRequests[0 - auditLogs[i].request].applied
    /\ \A r \in AdminSlots :
          ( /\ adminRequests[r].pc = "done"
            /\ adminRequests[r].res.status \in {400, 401, 403, 404} )
          => AdminAuditRowsOf(r) = {}

\* C15: every request answered with success that changed a stored row (a
\* user, its password included, a product or a pending change) has written
\* an audit row whose actor is the caller.
C15_EveryStateChangeAudited ==
    /\ \A r \in AdminSlots :
          ( /\ adminRequests[r].pc = "done"
            /\ adminRequests[r].res.status = 200
            /\ adminRequests[r].applied )
          => \E i \in AdminAuditRowsOf(r) :
                auditLogs[i].userId = adminRequests[r].user.userId
    /\ \A r \in Slots :
          ( /\ requests[r].kind \in {"submit", "review"}
            /\ Succeeded(requests[r])
            /\ ~requests[r].absent )
          => \E i \in AuditRowsOf(r) : auditLogs[i].userId = requests[r].user.userId

-----------------------------------------------------------------------------
\* C17: the step in which a submit request inserts its row adds exactly one
\* pending change, under an id no row has or ever had, with the caller as
\* submitter, the body's action, resource and data, status pending and no
\* reviewer, review timestamp or review notes, and leaves every stored
\* pending change as it was; the success response that follows carries that
\* row and changes no pending change.
C17_SubmitAddsOneFreshChange ==
    [][ \A r \in Slots :
          /\ ( /\ requests[r].kind = "none"
               /\ requests'[r].kind = "submit"
               /\ requests'[r].pc = "audit" )
             => \E id \in DOMAIN pendingChanges' :
                   /\ id \notin IssuedIds
                   /\ DOMAIN pendingChanges' = DOMAIN pendingChanges \cup {id}
                   /\ \A c \in DOMAIN pendingChanges :
                         pendingChanges'[c] = pendingChanges[c]
                   /\ requests'[r].pendingChange = <<pendingChanges'[id]>>
                   /\ LET row == pendingChanges'[id]
                          body == requests'[r].body
                      IN /\ row.id = id
                         /\ row.userId = requests'[r].user.userId
                         /\ row.action = body.action
                         /\ row.resourceType = body.resourceType
                         /\ row.resourceId = body.resourceId
                         /\ row.changeData = body.changeData
                         /\ row.status = "pending"
                         /\ row.reviewedBy = NULL
                         /\ row.reviewedAt = NullTime
                         /\ row.reviewNotes = NULL
          /\ ( /\ requests[r].kind = "submit"
               /\ requests[r].pc = "audit"
               /\ requests'[r].res.status = 200 )
             => /\ pendingChanges' = pendingChanges
                /\ requests'[r].res.data = requests[r].pendingChange ]_vars

\* Two stored changes of one submitter for one target resource, the second
\* answered with success.
C17_Witness ==
    \E c1 \in DOMAIN pendingChanges : \E c2 \in DOMAIN pendingChanges \ {c1} :
        /\ pendingChanges[c1].userId = pendingChanges[c2].userId
        /\ pendingChanges[c1].resourceId = pendingChanges[c2].resourceId
        /\ pendingChanges[c1].createdAt < pendingChanges[c2].createdAt
        /\ \E r \in Slots :
              /\ requests[r].kind = "submit"
              /\ Succeeded(requests[r])
              /\ requests[r].res.data = <<pendingChanges[c2]>>

\* C18: the step in which a review request runs PendingChangeModel.review
\* keeps the set of stored pending changes, every pending change under
\* another id, every users row, every products row and the audit log as
\* they were.
C18_ReviewChangesOnlyItsRow ==
    [][ \A r \in Slots :
          ( /\ requests[r].kind = "review"
            /\ requests[r].pc = "review"
            /\ requests'[r].pc = "audit" )
          => /\ DOMAIN pendingChanges' = DOMAIN pendingChanges
             /\ \A c \in DOMAIN pendingChanges \ {requests[r].id} :
                   pendingChanges'[c] = pendingChanges[c]
             /\ users' = users
             /\ products' = products
             /\ auditLogs' = auditLogs ]_vars

\* A review has updated its row while another pending change is stored.
C18_Witness ==
    \E r \in Slots :
        /\ requests[r].kind = "review"
        /\ requests[r].pc = "audit"
        /\ requests[r].reviewed # <<>>
        /\ requests[r].id \in DOMAIN pendingChanges
        /\ pendingChanges[requests[r].id].status = "approved"
        /\ \E c \in DOMAIN pendingChanges \ {requests[r].id} :
              pendingChanges[c].status = "pending"

-----------------------------------------------------------------------------
\* The list queries
\*
\* A query answers with a sequence of rows.  ORDER BY leaves the order of
\* rows with equal keys open, so a query is modelled by the set of sequences
\* the database may answer with.

Rows(table) == { table[i] : i \in DOMAIN table }

\* The sequences that hold each row of `rows` exactly once.
Orderings(rows) ==
    { f \in [1..Cardinality(rows) -> rows] :
        \A i \in DOMAIN f : \A j \in DOMAIN f : i # j => f[i] # f[j] }

\* desc with the comparison turned around (ascending order).
descAscending(x, y) == x <= y

\* desc(column): a row with key x may stand before a row with key y.
desc(x, y) == x >= y

\* .orderBy(desc(createdAt))
OrderByCreatedAtDesc(rows) ==
    { f \in Orderings(rows) :
        \A i \in DOMAIN f : \A j \in DOMAIN f :
            i < j => desc(f[i].createdAt, f[j].createdAt) }

\* .limit(n)
Limit(f, n) == SubSeq(f, 1, IF n < Len(f) THEN n ELSE Len(f))

PendingChangeModel_getAllPending(table) ==
    OrderByCreatedAtDesc({ row \in Rows(table) : row.status = "pending" })

PendingChangeModel_getByUserId(table, userId) ==
    OrderByCreatedAtDesc({ row \in Rows(table) : row.userId = userId })

PendingChangeModel_getByStatus(table, status) ==
    OrderByCreatedAtDesc({ row \in Rows(table) : row.status = status })

\* The rows of a query answer, and whether the answer holds no row twice
\* and no row before a newer one.
Range(f) == { f[i] : i \in DOMAIN f }

NewestFirst(f) ==
    \A i \in DOMAIN f : \A j \in DOMAIN f :
        i < j => /\ f[i] # f[j]
                 /\ f[i].createdAt >= f[j].createdAt

\* C19: on every reachable pending_changes table, every answer of
\* getByStatus(s) holds exactly the stored rows with status s, every answer
\* of getByUserId(i) exactly those submitted by i, and getAllPending()
\* answers as getByStatus(pending) does; every answer holds each row once,
\* no row before a row created later.
C19_ListQueries ==
    /\ \A status \in {"pending", "approved", "rejected"} :
          /\ PendingChangeModel_getByStatus(pendingChanges, status) # {}
          /\ \A f \in PendingChangeModel_getByStatus(pendingChanges, status) :
                /\ Range(f) = { row \in Rows(pendingChanges) : row.status = status }
                /\ NewestFirst(f)
    /\ \A userId \in DOMAIN SeedUsers :
          /\ PendingChangeModel_getByUserId(pendingChanges, userId) # {}
          /\ \A f \in PendingChangeModel_getByUserId(pendingChanges, userId) :
                /\ Range(f) = { row \in Rows(pendingChanges) : row.userId = userId }
                /\ NewestFirst(f)
    /\ PendingChangeModel_getAllPending(pendingChanges) =
          PendingChangeModel_getByStatus(pendingChanges, "pending")

\* Two changes of one submitter stored, created at different times, one of
\* them reviewed.
C19_Witness ==
    \E c1 \in DOMAIN pendingChanges : \E c2 \in DOMAIN pendingChanges :
        /\ pendingChanges[c1].userId = pendingChanges[c2].userId
        /\ pendingChanges[c1].createdAt < pendingChanges[c2].createdAt
        /\ pendingChanges[c1].status = "rejected"
        /\ pendingChanges[c2].status = "pending"

-----------------------------------------------------------------------------
\* The audit queries

\* A query without the parameter limit.
NoLimit == 0 - 1

\* limit: number = 50, and the same default in GET /api/audit/user/:userId.
DefaultLimit == 50

\* The caps the callers ask for.
Caps == {NoLimit} \cup 0..2

\* if (options?.limit): undefined and 0 are both falsy.
HasLimit(options) == options.limit # NoLimit /\ options.limit # 0

\* AuditLogModel.getAll: the conditions of the options that are set, newest
\* first, cut to options.limit when that is set.
AuditLogModel_getAll(log, options) ==
    LET matching ==
          { row \in Range(log) :
              /\ options.userId # NULL => row.userId = options.userId
              /\ options.action # NULL => row.action = options.action
              /\ options.resourceType # NULL => row.resourceType = options.resourceType
              /\ options.startDate # NullTime => row.createdAt >= options.startDate
              /\ options.endDate # NullTime => row.createdAt <= options.endDate }
    IN { IF HasLimit(options) THEN Limit(f, options.limit) ELSE f :
           f \in OrderByCreatedAtDesc(matching) }

AuditLogModel_getByUserId(log, userId, limit) ==
    { Limit(f, limit) :
        f \in OrderByCreatedAtDesc({ row \in Range(log) : row.userId = userId }) }

AuditLogModel_getByResourceId(log, resourceId) ==
    OrderByCreatedAtDesc({ row \in Range(log) : row.resourceId = resourceId })

\* GET /api/audit?startDate=&endDate=&limit= : each parameter that is given
\* goes into the options.
AuditByTimeRange(log, startDate, endDate, limit) ==
    AuditLogModel_getAll(log,
        [ userId |-> NULL, action |-> NULL, resourceType |-> NULL,
          startDate |-> startDate, endDate |-> endDate, limit |-> limit ])

\* GET /api/audit/user/:userId?limit=
AuditByActor(log, userId, limit) ==
    AuditLogModel_getByUserId(log, userId,
        IF limit # NoLimit THEN limit ELSE DefaultLimit)

\* GET /api/audit/resource/:resourceId
AuditByResource(log, resourceId) == AuditLogModel_getByResourceId(log, resourceId)

\* The answer f holds rows of `matching` only, newest first; all of them
\* when no cap is given, and otherwise as many as the cap allows, none of
\* them older than a matching row left out.
CappedNewestFirst(f, matching, cap) ==
    /\ Range(f) \subseteq matching
    /\ NewestFirst(f)
    /\ cap = NoLimit => Range(f) = matching
    /\ cap # NoLimit =>
          /\ Len(f) = IF cap < Cardinality(matching) THEN cap
                      ELSE Cardinality(matching)
          /\ \A kept \in Range(f) : \A out \in matching \ Range(f) :
                kept.createdAt >= out.createdAt

\* C20: on every reachable audit log, every answer of the query by actor,
\* of the query by resource id and of the query by time range holds matching
\* rows only, newest first: all of them without a cap, and with a cap (0
\* included) at most that many, the newest ones.
C20_AuditQueries ==
    /\ \A userId \in DOMAIN SeedUsers : \A cap \in Caps :
          \A f \in AuditByActor(auditLogs, userId, cap) :
              CappedNewestFirst(f, { row \in Range(auditLogs) : row.userId = userId }, cap)
    /\ \A resourceId \in KnownIds :
          \A f \in AuditByResource(auditLogs, resourceId) :
              CappedNewestFirst(f,
                  { row \in Range(auditLogs) : row.resourceId = resourceId }, NoLimit)
    /\ \A startDate \in 1..now : \A endDate \in startDate..now : \A cap \in Caps :
          \A f \in AuditByTimeRange(auditLogs, startDate, endDate, cap) :
              CappedNewestFirst(f,
                  { row \in Range(auditLogs) :
                      row.createdAt >= startDate /\ row.createdAt <= endDate }, cap)

-----------------------------------------------------------------------------
\* A step in which the purge of a pending change is carried out.
IsPurge ==
    /\ nextRequest' = nextRequest + 1
    /\ requests'[nextRequest'].kind = "delete"

\* C21: the purge removes the pending change with the given id whatever its
\* status, answers true exactly when a record was removed and false when none
\* existed, and leaves every other pending change and every audit entry
\* unchanged.
C21_PurgeRemovesExactlyItsRow ==
    [][ IsPurge =>
          LET req == requests'[nextRequest']
          IN /\ req.id \notin DOMAIN pendingChanges'
             /\ req.deleted = (req.id \in DOMAIN pendingChanges)
             /\ DOMAIN pendingChanges' = DOMAIN pendingChanges \ {req.id}
             /\ \A i \in DOMAIN pendingChanges' : pendingChanges'[i] = pendingChanges[i]
             /\ auditLogs' = auditLogs ]_vars

\* A reviewed pending change has been purged with the answer true while the
\* audit entries written for it are still stored.
C21_Witness ==
    \E r \in Slots :
       /\ requests[r].kind = "delete"
       /\ requests[r].deleted
       /\ requests[r].pendingChange[1].status \in {"approved", "rejected"}
       /\ auditLogs # <<>>

-----------------------------------------------------------------------------
\* The catalog table a request of the given kind writes.
TableOf(kind) ==
    IF kind \in {"createProduct", "updateProduct", "deleteProduct"} THEN products
    ELSE IF kind \in {"createSubcategory", "updateSubcategory", "deleteSubcategory"}
    THEN subcategories
    ELSE categories

\* The creates and updates of the catalog routes.
SlugKinds ==
    { "createProduct", "updateProduct", "createSubcategory", "updateSubcategory",
      "createCategory", "updateCategory" }

NoDuplicateSlugs(table) ==
    \A i, j \in DOMAIN table : table[i].slug = table[j].slug => i = j

\* The body of the create or update `req` names a slug that a row other than
\* its own holds.
WouldDuplicateSlug(req) ==
    /\ req.body.slug # NULL
    /\ \E i \in DOMAIN TableOf(req.kind) :
          TableOf(req.kind)[i].slug = req.body.slug /\ i # req.id

\* The request r takes its first step (it arrives) or its write step.
ReadsOrWrites(r) ==
    \/ r \notin DOMAIN adminRequests
    \/ adminRequests[r].pc = "write" /\ adminRequests'[r].pc # "write"

\* C22: in every reachable state, also under concurrent creates and updates
\* by different admins, no two products, no two subcategories and no two
\* categories share a slug; a create or update that would duplicate a slug
\* fails and leaves the store unchanged.
C22_SlugsStayUnique ==
    /\ [](/\ NoDuplicateSlugs(products)
          /\ NoDuplicateSlugs(subcategories)
          /\ NoDuplicateSlugs(categories))
    /\ [][ \A r \in DOMAIN adminRequests' :
             LET req == adminRequests'[r]
             IN ( /\ req.kind \in SlugKinds
                  /\ requireAdmin(req.user)
                  /\ ReadsOrWrites(r)
                  /\ WouldDuplicateSlug(req) )
                => /\ req.pc = "done"
                   /\ req.res.status >= 400
                   /\ <<products, subcategories, categories>>' =
                         <<products, subcategories, categories>> ]_vars

\* Two admins raced for one slug: the update of one has stored it, and the
\* create of the other, which had passed its own slug check, was refused by
\* the database.
C22_Witness ==
    \E r, q \in DOMAIN adminRequests :
       /\ adminRequests[r].kind = "createProduct"
       /\ adminRequests[r].pc = "done"
       /\ adminRequests[r].res.status = 500
       /\ adminRequests[q].kind = "updateProduct"
       /\ adminRequests[q].applied
       /\ adminRequests[q].user # adminRequests[r].user
       /\ adminRequests[q].body.slug = adminRequests[r].body.slug
       /\ products[adminRequests[q].id].slug = adminRequests[r].body.slug

-----------------------------------------------------------------------------
\* The deletes of the catalog routes.
DeleteKinds == {"deleteProduct", "deleteSubcategory", "deleteCategory"}

\* The audit rows with action delete that name the resource `id`.
DeleteAuditRows(id) ==
    { i \in 1..Len(auditLogs) :
        auditLogs[i].action = "delete" /\ auditLogs[i].resourceId = id }

\* The requests r and q are two answered deletes of one resource by different
\* admins: the resource existed when the first of them read it, no other
\* request has deleted anything, and no audit insert was rejected.
TwoDeletesOfOne(r, q) ==
    /\ r # q
    /\ adminRequests[r].kind \in DeleteKinds
    /\ adminRequests[q].kind = adminRequests[r].kind
    /\ adminRequests[r].pc = "done" /\ adminRequests[q].pc = "done"
    /\ requireAdmin(adminRequests[r].user) /\ requireAdmin(adminRequests[q].user)
    /\ adminRequests[r].user # adminRequests[q].user
    /\ adminRequests[q].id = adminRequests[r].id
    /\ adminRequests[r].found # <<>> \/ adminRequests[q].found # <<>>
    /\ ~adminRequests[r].auditFailed /\ ~adminRequests[q].auditFailed
    /\ \A o \in DOMAIN adminRequests \ {r, q} :
          ~(adminRequests[o].kind \in DeleteKinds /\ adminRequests[o].applied)

\* C25: when two admins delete the same existing product (or category, or
\* subcategory) concurrently, under every interleaving exactly one of the two
\* requests is answered with success and the other with not found, and
\* exactly one audit entry with action delete is written for the resource.
C25_ConcurrentDeleteOneWinner ==
    \A r, q \in DOMAIN adminRequests :
       TwoDeletesOfOne(r, q) =>
          /\ \/ adminRequests[r].res.status = 200 /\ adminRequests[q].res.status = 404
             \/ adminRequests[r].res.status = 404 /\ adminRequests[q].res.status = 200
          /\ Cardinality(DeleteAuditRows(adminRequests[r].id)) = 1

\* Both deletes of the product had read its row before either removed it: the
\* first was answered with success and the second, whose DELETE matched no
\* row, with not found.
C25_Witness ==
    \E r, q \in DOMAIN adminRequests :
       /\ TwoDeletesOfOne(r, q)
       /\ adminRequests[r].kind = "deleteProduct"
       /\ adminRequests[r].found # <<>> /\ adminRequests[q].found # <<>>
       /\ adminRequests[r].res.status = 200
       /\ adminRequests[q].res.status = 404

-----------------------------------------------------------------------------
\* The table without the rows that `gone` holds for.
Without(table, gone(_)) ==
    [ i \in {j \in DOMAIN table : ~gone(table[j])} |-> table[i] ]

\* The request r carries out its DELETE, and the row is there.
Deletes(r, kind) ==
    /\ r \in DOMAIN adminRequests
    /\ adminRequests[r].kind = kind
    /\ adminRequests[r].pc = "write"
    /\ adminRequests'[r].pc # "write"
    /\ adminRequests[r].id \in DOMAIN TableOf(kind)

\* C30: in every reachable state every subcategory references an existing
\* category and every product an existing subcategory; deleting a category
\* removes its subcategories and the products of those subcategories, and
\* deleting a subcategory removes its products.
C30_ReferencesAndCascades ==
    /\ [](/\ \A i \in DOMAIN subcategories :
                subcategories[i].categoryId \in DOMAIN categories
          /\ \A i \in DOMAIN products :
                products[i].subcategoryId \in DOMAIN subcategories)
    /\ [][ \A r \in DOMAIN adminRequests' :
             LET id == adminRequests[r].id
                 InCategory(row) == row.categoryId = id
                 InSubcategory(row) == row.subcategoryId = id
                 InSubcategoryOfCategory(row) ==
                     subcategories[row.subcategoryId].categoryId = id
             IN /\ Deletes(r, "deleteCategory") =>
                     /\ id \notin DOMAIN categories'
                     /\ subcategories' = Without(subcategories, InCategory)
                     /\ products' = Without(products, InSubcategoryOfCategory)
                /\ Deletes(r, "deleteSubcategory") =>
                     /\ id \notin DOMAIN subcategories'
                     /\ products' = Without(products, InSubcategory)
                     /\ categories' = categories ]_vars

\* The category c1 has been deleted by the only request issued: its
\* subcategory sc1 and the product p1 of sc1 are gone with it, the other
\* category and its subcategory are still stored.
C30_Witness ==
    /\ Len(adminRequests) = 1
    /\ adminRequests[1].kind = "deleteCategory"
    /\ adminRequests[1].applied
    /\ adminRequests[1].id = "c1"
    /\ "sc1" \notin DOMAIN subcategories
    /\ "p1" \notin DOMAIN products
    /\ "c2" \in DOMAIN categories
    /\ "sc2" \in DOMAIN subcategories

-----------------------------------------------------------------------------
\* C23: the auditLog middleware writes an audit entry exactly when the
\* request has an authenticated user and the response is sent with a status
\* below 400, none for a status of 400 or more, and a failure of the audit
\* write never changes the body or the status of the response.
C23_MiddlewareAuditsSuccessOnly ==
    /\ [](\A r \in DOMAIN adminRequests :
            LET req == adminRequests[r]
                written == Cardinality(AdminAuditRowsOf(r))
            IN (req.kind = "auditLog" /\ req.pc = "done") =>
                 /\ written = IF /\ authenticateToken(req.user)
                                 /\ req.res.status < 400
                                 /\ ~req.auditFailed
                              THEN 1 ELSE 0
                 /\ req.auditFailed =>
                       authenticateToken(req.user) /\ req.res.status < 400)
    /\ [][ \A r \in DOMAIN adminRequests :
             (adminRequests[r].kind = "auditLog" /\ adminRequests[r].pc # "handler")
                => adminRequests'[r].res = adminRequests[r].res ]_vars

\* One request answered 200 whose audit insert was rejected and left the
\* response as it was, and one answered 400 for an authenticated caller
\* without an audit entry.
C23_Witness ==
    \E r, q \in DOMAIN adminRequests :
       /\ adminRequests[r].kind = "auditLog" /\ adminRequests[q].kind = "auditLog"
       /\ adminRequests[r].pc = "done" /\ adminRequests[q].pc = "done"
       /\ adminRequests[r].auditFailed
       /\ adminRequests[r].res.status = 200
       /\ authenticateToken(adminRequests[q].user)
       /\ adminRequests[q].res.status = 400
       /\ AdminAuditRowsOf(q) = {}

-----------------------------------------------------------------------------
\* The audit rows that record a review decision on the pending change `id`.
ReviewAuditRows(id) ==
    { i \in 1..Len(auditLogs) :
        /\ auditLogs[i].action \in {"approve", "reject"}
        /\ auditLogs[i].resourceType = "pending_change"
        /\ auditLogs[i].resourceId = id }

\* C24: for every stored pending change, under every interleaving of review
\* requests, at most one audit entry with action approve or reject names it,
\* and the action of that entry matches the stored terminal status.
C24_OneReviewAuditPerChange ==
    \A id \in DOMAIN pendingChanges :
       /\ Cardinality(ReviewAuditRows(id)) <= 1
       /\ \A i \in ReviewAuditRows(id) :
             auditLogs[i].action = ReviewAuditAction(pendingChanges[id].status)

-----------------------------------------------------------------------------
\* C26: the submitter of every stored pending change is an existing identity
\* with role editor, the reviewer of every approved or rejected pending
\* change is an existing identity with role admin, and so no pending change
\* is reviewed by its submitter.
C26_SubmitterEditorReviewerAdmin ==
    \A id \in DOMAIN pendingChanges :
       LET row == pendingChanges[id]
       IN /\ row.userId \in DOMAIN users
          /\ users[row.userId].role = EDITOR
          /\ row.status \in {"approved", "rejected"} =>
                /\ row.reviewedBy \in DOMAIN users
                /\ users[row.reviewedBy].role = ADMIN
                /\ row.reviewedBy # row.userId

\* A pending change submitted by the editor has been reviewed by an admin.
C26_Witness ==
    \E id \in DOMAIN pendingChanges :
       /\ pendingChanges[id].status \in {"approved", "rejected"}
       /\ pendingChanges[id].userId = "editor1"
       /\ pendingChanges[id].reviewedBy \in {"admin1", "admin2"}

-----------------------------------------------------------------------------
\* The users rows that an audit row or a pending change names.
ReferencedUsers ==
    ( { auditLogs[i].userId : i \in 1..Len(auditLogs) }
      \cup { pendingChanges[c].userId : c \in DOMAIN pendingChanges }
      \cup { pendingChanges[c].reviewedBy : c \in DOMAIN pendingChanges } ) \ {NULL}

\* C27: the actor of every audit row and the submitter and the reviewer of
\* every pending change are stored users rows; and the step in which the
\* database is asked to delete a users row that such a record names answers
\* the request with an error, removes no users row and writes no audit row,
\* then or later.
C27_ReferencesResolveDeleteRefused ==
    /\ [](ReferencedUsers \subseteq DOMAIN users)
    /\ [][ \A r \in AdminSlots :
             ( /\ adminRequests[r].kind = "deleteUser"
               /\ adminRequests[r].pc = "write"
               /\ adminRequests'[r].pc # "write"
               /\ adminRequests[r].id \in ReferencedUsers )
             => /\ users' = users
                /\ auditLogs' = auditLogs
                /\ adminRequests'[r].pc = "done"
                /\ adminRequests'[r].res.status >= 400 ]_vars
    /\ [](\A r \in AdminSlots :
             (adminRequests[r].kind = "deleteUser" /\ adminRequests[r].res.status >= 400)
             => AdminAuditRowsOf(r) = {})

\* The delete of the editor, who submitted a pending change, was refused by
\* the database; the editor's row and the pending change are still stored.
C27_Witness ==
    /\ "editor1" \in DOMAIN users
    /\ \E c \in DOMAIN pendingChanges : pendingChanges[c].userId = "editor1"
    /\ \E r \in AdminSlots :
          /\ adminRequests[r].kind = "deleteUser"
          /\ adminRequests[r].id = "editor1"
          /\ adminRequests[r].pc = "done"
          /\ adminRequests[r].res = Respond(500, "Internal server error", <<>>)

-----------------------------------------------------------------------------
\* The ids of the users rows of a table whose role is admin.
Admins(table) == { id \in DOMAIN table : table[id].role = ADMIN }

\* C28: whatever create-user, update-role and other user requests are
\* served, the users rows with role admin are those of the start: no row is
\* created with role admin, no editor's row gets role admin, and no admin's
\* row is lost.
C28_AdminSetFixed == Admins(users) = Admins(SeedUsers)

\* A user was created and the role of a users row was set, both with
\* success.
C28_Witness ==
    /\ \E id \in DOMAIN users : id \notin DOMAIN SeedUsers /\ users[id].role = EDITOR
    /\ \E r \in AdminSlots :
          /\ adminRequests[r].kind = "role"
          /\ adminRequests[r].pc = "done"
          /\ adminRequests[r].res.status = 200

-----------------------------------------------------------------------------
\* C29: a login request that names a users row whose active flag is false,
\* with the password of that row, is not answered with success.
C29_DeactivatedCannotLogIn ==
    \A r \in AdminSlots :
       ( /\ adminRequests[r].kind = "login"
         /\ adminRequests[r].found # <<>>
         /\ ~adminRequests[r].found[1].isActive
         /\ argon2_verify(adminRequests[r].found[1].password,
                          adminRequests[r].body.password) )
       => adminRequests[r].res.status # 200

====
